---------------------------- MODULE Spec2Model ----------------------------
(***************************************************************************)
(* A model of mm/lksm.c (lightweight KSM): the stable tree with its        *)
(* duplicate chains, the unstable tree, the reverse-mapping items, the     *)
(* scan cursor, and the crawler / scanner threads.                         *)
(*                                                                         *)
(* The code is procedural, so each C function is an operator from a state  *)
(* record S (one field per program variable) to the state record after the *)
(* call; an action applies such operators to the current state Cur and     *)
(* commits the result.                                                     *)
(***************************************************************************)
EXTENDS Integers, Sequences, FiniteSets, TLC

(***************************************************************************)
(* Bounds of the model.                                                    *)
(***************************************************************************)
NumMM == 2                 \* number of address spaces (mm_struct)
MaxAddr == 2               \* pages of the one mergeable vma of each mm
MaxContent == 2            \* distinct page contents
MaxEnv == 1                \* user-side events (write, unmap, fork, exit, freeze, fault)
MaxCtl == 1                \* writes to the run file after the first start
MaxRound == 4              \* rounds the crawler prepares
ksm_max_page_sharing == 2  \* the max_page_sharing tunable (at least 2)

(***************************************************************************)
(* Program constants.                                                      *)
(***************************************************************************)
MERGE_WIN == 3
STABLE_NODE_CHAIN == -1024
SEQNR_MASK == 255
initial_round == 3
KSM_RUN_STOP == 0
KSM_RUN_MERGE == 1
KSM_RUN_UNMERGE == 2
KSM_RUN_ONESHOT == 8
LKSM_SCAN_NONE == 0
LKSM_SCAN_PARTIAL == 1
LKSM_SCAN_FULL == 2
FROZEN_BIT == 1
lksm_max_vips == 20

MMs == 1..NumMM
Addrs == 1..MaxAddr
Units == MMs \X Addrs
NoUnit == <<0, 0>>          \* a NULL rmap_item pointer
Contents == 1..MaxContent
Pages == 1..(NumMM * MaxAddr + 1)
NodeIds == 1..(NumMM * MaxAddr)
VmEnd == MaxAddr + 1

\* the two list heads a cursor can rest on: &ksm_scan_head and &ksm_mm_head
ScanHead == 0
MmHead == -1

VARIABLES
    pte,                  \* [Units -> Pages \cup {0}]: the page mapped at (mm, address), 0 if none
    page,                 \* [Pages -> [kind, node, content]]: struct page (mapping and bytes)
    mm_stage,             \* [MMs -> stage]: "live" while mm->mm_users > 0, then "put", "exiting", "unborn"
    rmap,                 \* [Units -> rmap_item]: the rmap_item of (mm, address)
    stable_node,          \* [NodeIds -> struct stable_node]
    root_stable_tree,     \* in-order sequence of the nodes linked in the stable rbtree
    root_unstable_tree,   \* in-order sequence of the rmap_items linked in the unstable rbtree
    migrate_nodes,        \* list of nodes pending placement
    ksm_pages_shared,
    ksm_pages_sharing,
    ksm_pages_unshared,
    ksm_rmap_items,
    ksm_stable_node_chains,
    ksm_stable_node_dups,
    lksm_slot_nr_merged,
    lksm_nr_scanned_slot,
    mm_slot,              \* [MMs -> struct mm_slot]
    mm_list,              \* ksm_mm_head.mm_list
    scan_list,            \* ksm_scan_head.scan_list
    remove_mm_list,       \* ksm_scan.remove_mm_list
    vips_list,            \* in-order sequence of the slots in the vips rbtree
    frozen_task_list,     \* the frozen tasks that are not registered yet
    ksm_scan,             \* struct ksm_scan, the cursor
    ksm_crawl_round,
    ksm_run,
    ksm_state,            \* 0: in crawling, 1: in scanning
    ksm_one_shot_scanning, \* the scan mode asked for through one_shot_scanning
    bug,                  \* the BUG_ON that fired, "none" otherwise
    in_freezer,           \* [MMs -> BOOLEAN]: the task of the mm is frozen
    env,                  \* user-side events so far
    ctl,                  \* writes to the run file so far (the first start apart)
    crawl_pc,             \* position of lksm_crawl_thread
    scan_pc,              \* position of lksm_scan_thread
    need_to_sleep,        \* local of lksm_scan_thread
    gkp,                  \* the frame of a get_ksm_page call that runs step by step
    mig,                  \* the frame of a page migration that runs step by step
    passed,               \* [MMs -> the values given to lksm_account_mm_slot_nr_merge
                          \*  for the slot since it was allocated], kept by RankSpec
    faulted               \* the owners whose fault count differs from the
                          \*  fault_cnt of their slot, kept by VipSpec

vars == <<pte, page, mm_stage, rmap, stable_node, root_stable_tree,
          root_unstable_tree, migrate_nodes, ksm_pages_shared,
          ksm_pages_sharing, ksm_pages_unshared, ksm_rmap_items,
          ksm_stable_node_chains, ksm_stable_node_dups, lksm_slot_nr_merged,
          lksm_nr_scanned_slot, mm_slot, mm_list, scan_list, remove_mm_list,
          vips_list, frozen_task_list, ksm_scan, ksm_crawl_round, ksm_run,
          ksm_state, ksm_one_shot_scanning, bug, in_freezer, env, ctl,
          crawl_pc, scan_pc, need_to_sleep, gkp, mig, passed,
          faulted>>

\* the current state as a record
Cur == [pte |-> pte, page |-> page, mm_stage |-> mm_stage, rmap |-> rmap,
        stable_node |-> stable_node, root_stable_tree |-> root_stable_tree,
        root_unstable_tree |-> root_unstable_tree,
        migrate_nodes |-> migrate_nodes,
        ksm_pages_shared |-> ksm_pages_shared,
        ksm_pages_sharing |-> ksm_pages_sharing,
        ksm_pages_unshared |-> ksm_pages_unshared,
        ksm_rmap_items |-> ksm_rmap_items,
        ksm_stable_node_chains |-> ksm_stable_node_chains,
        ksm_stable_node_dups |-> ksm_stable_node_dups,
        lksm_slot_nr_merged |-> lksm_slot_nr_merged,
        lksm_nr_scanned_slot |-> lksm_nr_scanned_slot,
        mm_slot |-> mm_slot, mm_list |-> mm_list, scan_list |-> scan_list,
        remove_mm_list |-> remove_mm_list, vips_list |-> vips_list,
        frozen_task_list |-> frozen_task_list,
        ksm_scan |-> ksm_scan, ksm_crawl_round |-> ksm_crawl_round,
        ksm_run |-> ksm_run, ksm_state |-> ksm_state,
        ksm_one_shot_scanning |-> ksm_one_shot_scanning, bug |-> bug,
        ksm_max_page_sharing |-> ksm_max_page_sharing,
        lksm_max_vips |-> lksm_max_vips]

\* the next state is the record S
CommitShared(S) ==
    /\ pte' = S.pte
    /\ page' = S.page
    /\ mm_stage' = S.mm_stage
    /\ rmap' = S.rmap
    /\ stable_node' = S.stable_node
    /\ root_stable_tree' = S.root_stable_tree
    /\ root_unstable_tree' = S.root_unstable_tree
    /\ migrate_nodes' = S.migrate_nodes
    /\ ksm_pages_shared' = S.ksm_pages_shared
    /\ ksm_pages_sharing' = S.ksm_pages_sharing
    /\ ksm_pages_unshared' = S.ksm_pages_unshared
    /\ ksm_rmap_items' = S.ksm_rmap_items
    /\ ksm_stable_node_chains' = S.ksm_stable_node_chains
    /\ ksm_stable_node_dups' = S.ksm_stable_node_dups
    /\ lksm_slot_nr_merged' = S.lksm_slot_nr_merged
    /\ lksm_nr_scanned_slot' = S.lksm_nr_scanned_slot
    /\ mm_slot' = S.mm_slot
    /\ mm_list' = S.mm_list
    /\ scan_list' = S.scan_list
    /\ remove_mm_list' = S.remove_mm_list
    /\ vips_list' = S.vips_list
    /\ frozen_task_list' = S.frozen_task_list
    /\ ksm_scan' = S.ksm_scan
    /\ ksm_crawl_round' = S.ksm_crawl_round
    /\ ksm_run' = S.ksm_run
    /\ ksm_state' = S.ksm_state
    /\ ksm_one_shot_scanning' = S.ksm_one_shot_scanning
    /\ bug' = S.bug

\* a step of the program outside the two frames
Commit(S) == CommitShared(S) /\ UNCHANGED <<gkp, mig, passed, faulted>>

(***************************************************************************)
(* Sequences.                                                              *)
(***************************************************************************)
Range(s) == {s[i] : i \in 1..Len(s)}
Without(s, x) == SelectSeq(s, LAMBDA y : y # x)
InsertAt(s, i, x) == SubSeq(s, 1, i - 1) \o <<x>> \o SubSeq(s, i, Len(s))
ReplaceIn(s, x, y) == [i \in 1..Len(s) |-> IF s[i] = x THEN y ELSE s[i]]
IndexOf(s, x) == CHOOSE i \in 1..Len(s) : s[i] = x
Min(A) == CHOOSE x \in A : \A y \in A : x <= y

\* With([x \in {e} |-> body]) is body with x standing for the value of e: the
\* result of a call is bound once and used any number of times
With(binding) == binding[CHOOSE x \in DOMAIN binding : TRUE]

(***************************************************************************)
(* Pages and page tables (the memory manager, seen through the calls the   *)
(* code makes).                                                            *)
(***************************************************************************)
FreePage == [kind |-> "free", node |-> 0, content |-> 0]
NoItem == [present |-> FALSE, flag |-> "none", seqnr |-> 0, oldchecksum |-> 0,
           head |-> 0]
FreeNode == [head |-> "free", kpfn |-> 0, rmap_hlist_len |-> 0, hlist |-> <<>>]

page_mapped(S, p) == \E u \in Units : S.pte[u] = p
PageKsm(S, p) == S.page[p].kind = "ksm"
PageAnon(S, p) == S.page[p].kind \in {"anon", "ksm"}

\* the last mapping of a page going away frees the page
put_unmapped(S, p) ==
    IF p = 0 \/ page_mapped(S, p) THEN S
    ELSE [S EXCEPT !.page[p] = FreePage]

zap_pte(S, u) ==
    LET p == S.pte[u] IN put_unmapped([S EXCEPT !.pte[u] = 0], p)

HasFreePage(S) == \E p \in Pages : S.page[p].kind = "free"
alloc_page(S) == Min({p \in Pages : S.page[p].kind = "free"})

\* a write fault on a ksm page (or on a page shared after fork) copies it
do_wp_copy(S, u, c) ==
    LET old == S.pte[u]
        new == alloc_page(S)
        S1 == [S EXCEPT !.page[new] = [kind |-> "anon", node |-> 0, content |-> c],
                        !.pte[u] = new]
    IN put_unmapped(S1, old)

ksm_test_exit(S, m) == S.mm_stage[m] # "live"

find_mergeable_vma(S, u) == ~ksm_test_exit(S, u[1])

calc_checksum(c) == 3 * c + 2

(***************************************************************************)
(* Stable nodes.                                                           *)
(***************************************************************************)
is_stable_node_chain(S, n) == S.stable_node[n].rmap_hlist_len = STABLE_NODE_CHAIN
is_stable_node_dup(S, n) == S.stable_node[n].head = "dup"

\* the rmap_items on stable_node->hlist
Hlist(S, n) == {u \in Units : S.rmap[u].present /\ S.rmap[u].flag = "stable"
                              /\ S.rmap[u].head = n}

HasFreeNode(S) == \E n \in NodeIds : S.stable_node[n].head = "free"
alloc_stable_node(S) == Min({n \in NodeIds : S.stable_node[n].head = "free"})

ChainOf(S, dup) == CHOOSE c \in NodeIds :
    is_stable_node_chain(S, c) /\ S.stable_node[c].head = "rb"
    /\ dup \in Range(S.stable_node[c].hlist)

stable_node_chain_add_dup(S, dup, chain) ==
    [S EXCEPT !.stable_node[dup].head = "dup",
              !.stable_node[chain].hlist = <<dup>> \o @,
              !.ksm_stable_node_dups = @ + 1]

dup_del(S, dup) ==
    [S EXCEPT !.stable_node[ChainOf(S, dup)].hlist = Without(@, dup),
              !.ksm_stable_node_dups = @ - 1]

stable_node_dup_del(S, n) ==
    IF is_stable_node_dup(S, n) THEN dup_del(S, n)
    ELSE [S EXCEPT !.root_stable_tree = Without(@, n)]

\* alloc_stable_node_chain without the move of the node under the chain
alloc_stable_node_chain_bare(S, dup, chain) ==
    [S EXCEPT !.stable_node[chain] =
                  [head |-> "rb", kpfn |-> 0,
                   rmap_hlist_len |-> STABLE_NODE_CHAIN, hlist |-> <<>>],
              !.ksm_stable_node_chains = @ + 1,
              !.root_stable_tree = ReplaceIn(@, dup, chain)]

alloc_stable_node_chain(S, dup, chain) ==
    LET S1 == [S EXCEPT !.stable_node[chain] =
                            [head |-> "rb", kpfn |-> 0,
                             rmap_hlist_len |-> STABLE_NODE_CHAIN, hlist |-> <<>>],
                        !.ksm_stable_node_chains = @ + 1,
                        !.root_stable_tree = ReplaceIn(@, dup, chain)]
    IN stable_node_chain_add_dup(S1, dup, chain)

free_stable_node_chain(S, chain) ==
    [S EXCEPT !.root_stable_tree = Without(@, chain),
              !.stable_node[chain] = FreeNode,
              !.ksm_stable_node_chains = @ - 1]

remove_node_from_stable_tree(S, n) ==
    IF S.stable_node[n].rmap_hlist_len < 0
    THEN [S EXCEPT !.bug = "remove_node_from_stable_tree"]
    ELSE
    LET items == Hlist(S, n)
        k == Cardinality(items)
        S1 == [S EXCEPT
                 !.ksm_pages_sharing = IF k > 0 THEN @ - (k - 1) ELSE @,
                 !.ksm_pages_shared = IF k > 0 THEN @ - 1 ELSE @,
                 !.rmap = [u \in Units |->
                             IF u \in items
                             THEN [@[u] EXCEPT !.flag = "none", !.seqnr = 0]
                             ELSE @[u]]]
        S2 == IF S.stable_node[n].head = "migrate"
              THEN [S1 EXCEPT !.migrate_nodes = Without(@, n)]
              ELSE stable_node_dup_del(S1, n)
    IN [S2 EXCEPT !.stable_node[n] = FreeNode]

\* the keyhole test of get_ksm_page
PageIsKey(S, n) ==
    LET p == S.stable_node[n].kpfn
    IN p # 0 /\ S.page[p].kind = "ksm" /\ S.page[p].node = n

\* get_ksm_page that leaves a stale node where it is
get_ksm_page_keep(S, n) ==
    IF PageIsKey(S, n) THEN [S |-> S, page |-> S.stable_node[n].kpfn]
    ELSE [S |-> S, page |-> 0]

\* [S |-> state after the call, page |-> the page gotten, 0 for NULL]
get_ksm_page(S, n) ==
    IF PageIsKey(S, n) THEN [S |-> S, page |-> S.stable_node[n].kpfn]
    ELSE [S |-> remove_node_from_stable_tree(S, n), page |-> 0]

(***************************************************************************)
(* rmap_items.                                                             *)
(***************************************************************************)
Age(S, u) == (S.ksm_scan.scan_round - S.rmap[u].seqnr) % (SEQNR_MASK + 1)

\* remove_rmap_item_from_tree without the decrement of rmap_hlist_len
remove_rmap_item_from_tree_len(S, u) ==
    IF S.rmap[u].flag = "stable" THEN
        LET n == S.rmap[u].head
            rest == Hlist(S, n) \ {u}
        IN With([g \in {get_ksm_page(S, n)} |->
           IF g.page = 0 THEN g.S
           ELSE [S EXCEPT
                   !.ksm_pages_sharing = IF rest # {} THEN @ - 1 ELSE @,
                   !.ksm_pages_shared = IF rest # {} THEN @ ELSE @ - 1,
                   !.rmap[u] = [@ EXCEPT !.flag = "none", !.seqnr = 0,
                                         !.head = 0]]])
    ELSE IF S.rmap[u].flag = "unstable" THEN
        [S EXCEPT
           !.root_unstable_tree = IF Age(S, u) = 0 THEN Without(@, u) ELSE @,
           !.ksm_pages_unshared = @ - 1,
           !.rmap[u] = [@ EXCEPT !.flag = "none", !.seqnr = 0]]
    ELSE S

remove_rmap_item_from_tree(S, u) ==
    IF S.rmap[u].flag = "stable" THEN
        LET n == S.rmap[u].head
            rest == Hlist(S, n) \ {u}
        IN With([g \in {get_ksm_page(S, n)} |->
           IF g.page = 0 THEN g.S
           ELSE [S EXCEPT
                   !.ksm_pages_sharing = IF rest # {} THEN @ - 1 ELSE @,
                   !.ksm_pages_shared = IF rest # {} THEN @ ELSE @ - 1,
                   !.stable_node[n].rmap_hlist_len = @ - 1,
                   !.rmap[u] = [@ EXCEPT !.flag = "none", !.seqnr = 0,
                                         !.head = 0]]])
    ELSE IF S.rmap[u].flag = "unstable" THEN
        [S EXCEPT
           !.root_unstable_tree = IF Age(S, u) = 0 THEN Without(@, u) ELSE @,
           !.ksm_pages_unshared = @ - 1,
           !.rmap[u] = [@ EXCEPT !.flag = "none", !.seqnr = 0]]
    ELSE S

free_rmap_item(S, u) ==
    [S EXCEPT !.ksm_rmap_items = @ - 1, !.rmap[u] = NoItem]

\* the rmap_items of an mm from address a on, in list order
ItemsFrom(S, m, a) == {b \in Addrs : b >= a /\ S.rmap[<<m, b>>].present}

RECURSIVE remove_trailing_rmap_items(_, _, _)
remove_trailing_rmap_items(S, m, a) ==
    IF ItemsFrom(S, m, a) = {} THEN S
    ELSE LET b == Min(ItemsFrom(S, m, a))
             u == <<m, b>>
         IN remove_trailing_rmap_items(
                free_rmap_item(remove_rmap_item_from_tree(S, u), u), m, b + 1)

(***************************************************************************)
(* Duplicate chains.                                                       *)
(***************************************************************************)
\* __is_page_sharing_candidate with the limit itself admitted
is_sharing_candidate_le(S, n, offset) ==
    /\ S.stable_node[n].rmap_hlist_len # 0
    /\ S.stable_node[n].rmap_hlist_len + offset <= S.ksm_max_page_sharing

\* __is_page_sharing_candidate
is_sharing_candidate(S, n, offset) ==
    /\ S.stable_node[n].rmap_hlist_len # 0
    /\ S.stable_node[n].rmap_hlist_len + offset < S.ksm_max_page_sharing

is_page_sharing_candidate(S, n) == is_sharing_candidate(S, n, 0)

\* the loop of stable_node_dup that prefers the dup with fewer records
RECURSIVE dup_walk_min(_, _, _, _, _, _)
dup_walk_min(S, list, i, found, nr, prune) ==
    IF i > Len(list) THEN [S |-> S, found |-> found, nr |-> nr]
    ELSE LET dup == list[i]
         IN With([g \in {get_ksm_page(S, dup)} |->
            IF g.page = 0 THEN dup_walk_min(g.S, list, i + 1, found, nr, prune)
            ELSE IF /\ is_page_sharing_candidate(S, dup)
                    /\ \/ found = 0
                       \/ S.stable_node[dup].rmap_hlist_len <
                              S.stable_node[found].rmap_hlist_len
            THEN IF ~prune THEN [S |-> S, found |-> dup, nr |-> nr + 1]
                 ELSE dup_walk_min(S, list, i + 1, dup, nr + 1, prune)
            ELSE dup_walk_min(S, list, i + 1, found, nr + 1, prune)])

\* the loop of stable_node_dup over the dups of a chain, from the i-th on;
\* found is the best dup so far (0 if none), nr the dups with a live page
RECURSIVE dup_walk(_, _, _, _, _, _)
dup_walk(S, list, i, found, nr, prune) ==
    IF i > Len(list) THEN [S |-> S, found |-> found, nr |-> nr]
    ELSE LET dup == list[i]
         IN With([g \in {get_ksm_page(S, dup)} |->
            IF g.page = 0 THEN dup_walk(g.S, list, i + 1, found, nr, prune)
            ELSE IF /\ is_page_sharing_candidate(S, dup)
                    /\ \/ found = 0
                       \/ S.stable_node[dup].rmap_hlist_len >
                              S.stable_node[found].rmap_hlist_len
            THEN IF ~prune THEN [S |-> S, found |-> dup, nr |-> nr + 1]
                 ELSE dup_walk(S, list, i + 1, dup, nr + 1, prune)
            ELSE dup_walk(S, list, i + 1, found, nr + 1, prune)])

\* stable_node_dup whose collapse of the chain leaves ksm_stable_node_dups
\* as it is
stable_node_dup_keep_count(S, chain, prune) ==
    With([w \in {dup_walk(S, S.stable_node[chain].hlist, 1, 0, 0, prune)} |->
    LET S1 == w.S
        found == w.found
        list == S1.stable_node[chain].hlist
    IN IF found = 0
       THEN [S |-> S1, dup |-> 0, stable_node |-> chain, page |-> 0]
       ELSE IF prune /\ w.nr = 1 THEN
           IF Len(list) > 1
           THEN [S |-> [S1 EXCEPT !.bug = "stable_node_dup"], dup |-> found,
                 stable_node |-> chain, page |-> S1.stable_node[found].kpfn]
           ELSE [S |-> [S1 EXCEPT
                          !.root_stable_tree = ReplaceIn(@, chain, found),
                          !.stable_node[found].head = "rb",
                          !.stable_node[chain] = FreeNode,
                          !.ksm_stable_node_chains = @ - 1],
                 dup |-> found, stable_node |-> found,
                 page |-> S1.stable_node[found].kpfn]
       ELSE IF list[1] # found /\ is_sharing_candidate(S1, found, 1)
       THEN [S |-> [S1 EXCEPT !.stable_node[chain].hlist =
                                  <<found>> \o Without(@, found)],
             dup |-> found, stable_node |-> chain,
             page |-> S1.stable_node[found].kpfn]
       ELSE [S |-> S1, dup |-> found, stable_node |-> chain,
             page |-> S1.stable_node[found].kpfn]])

\* [S, dup |-> *_stable_node_dup, stable_node |-> *_stable_node, page]
stable_node_dup(S, chain, prune) ==
    With([w \in {dup_walk(S, S.stable_node[chain].hlist, 1, 0, 0, prune)} |->
    LET S1 == w.S
        found == w.found
        list == S1.stable_node[chain].hlist
    IN IF found = 0
       THEN [S |-> S1, dup |-> 0, stable_node |-> chain, page |-> 0]
       ELSE IF prune /\ w.nr = 1 THEN
           IF Len(list) > 1
           THEN [S |-> [S1 EXCEPT !.bug = "stable_node_dup"], dup |-> found,
                 stable_node |-> chain, page |-> S1.stable_node[found].kpfn]
           ELSE [S |-> [S1 EXCEPT
                          !.root_stable_tree = ReplaceIn(@, chain, found),
                          !.stable_node[found].head = "rb",
                          !.stable_node[chain] = FreeNode,
                          !.ksm_stable_node_chains = @ - 1,
                          !.ksm_stable_node_dups = @ - 1],
                 dup |-> found, stable_node |-> found,
                 page |-> S1.stable_node[found].kpfn]
       ELSE IF list[1] # found /\ is_sharing_candidate(S1, found, 1)
       THEN [S |-> [S1 EXCEPT !.stable_node[chain].hlist =
                                  <<found>> \o Without(@, found)],
             dup |-> found, stable_node |-> chain,
             page |-> S1.stable_node[found].kpfn]
       ELSE [S |-> S1, dup |-> found, stable_node |-> chain,
             page |-> S1.stable_node[found].kpfn]])

\* [S, node]: node is 0 when the empty chain was freed
stable_node_dup_any(S, n) ==
    IF ~is_stable_node_chain(S, n) THEN [S |-> S, node |-> n]
    ELSE IF S.stable_node[n].hlist = <<>>
    THEN [S |-> free_stable_node_chain(S, n), node |-> 0]
    ELSE [S |-> S, node |-> S.stable_node[n].hlist[1]]

\* __stable_node_chain; chain_prune passes prune = TRUE when the prune
\* period of the chain has elapsed, chain() passes FALSE
stable_node_chain(S, n, prune) ==
    IF ~is_stable_node_chain(S, n) THEN
        IF is_page_sharing_candidate(S, n)
        THEN With([g \in {get_ksm_page(S, n)} |->
                 [S |-> g.S, dup |-> n, stable_node |-> n, page |-> g.page]])
        ELSE [S |-> S, dup |-> 0, stable_node |-> n, page |-> 0]
    ELSE stable_node_dup(S, n, prune)

\* the part of both tree walks that yields the page to compare with:
\* [S, dup, stable_node, page, again]
tree_page_of(S, n, prune) ==
    With([c \in {stable_node_chain(S, n, prune)} |->
       IF c.dup # 0
       THEN [S |-> c.S, dup |-> c.dup, stable_node |-> c.stable_node,
             page |-> c.page, again |-> c.page = 0]
       ELSE With([a \in {stable_node_dup_any(c.S, c.stable_node)} |->
               IF a.node = 0
               THEN [S |-> a.S, dup |-> 0, stable_node |-> 0, page |-> 0,
                     again |-> TRUE]
               ELSE With([g \in {get_ksm_page(a.S, a.node)} |->
                       [S |-> g.S, dup |-> 0, stable_node |-> c.stable_node,
                        page |-> g.page, again |-> g.page = 0]])])])

(***************************************************************************)
(* The stable tree.                                                        *)
(***************************************************************************)
\* one more pass through the label again
Restarted(r) == [r EXCEPT !.restarts = @ + 1]

\* the walk of stable_tree_search that goes on between lo and hi after a
\* stale node instead of restarting from the root
RECURSIVE stable_search_walk_resume(_, _, _, _, _, _)
stable_search_walk_resume(S, p, lo, hi, prune, busy) ==
    IF lo > hi THEN [S |-> S, res |-> 0, restarts |-> 0]
    ELSE LET mid == (lo + hi) \div 2
         IN With([t \in {tree_page_of(S, S.root_stable_tree[mid], prune)} |->
            LET S1 == t.S
            IN
            IF t.again
            THEN stable_search_walk_resume(S1, p, lo, hi - 1, prune, busy)
            ELSE IF S1.page[p].content < S1.page[t.page].content
            THEN stable_search_walk_resume(S1, p, lo, mid - 1, prune, busy)
            ELSE IF S1.page[p].content > S1.page[t.page].content
            THEN stable_search_walk_resume(S1, p, mid + 1, hi, prune, busy)
            ELSE IF t.dup = 0 THEN [S |-> S1, res |-> 0, restarts |-> 0]
            ELSE IF busy THEN [S |-> S1, res |-> -1, restarts |-> 0]
            ELSE [S |-> S1, res |-> S1.stable_node[t.dup].kpfn,
                  restarts |-> 0]])

\* the walk of stable_tree_search between positions lo and hi of the tree;
\* res is the page found, 0 for NULL, -1 for ERR_PTR(-EBUSY); restarts
\* counts the passes through the label again
RECURSIVE stable_search_walk(_, _, _, _, _, _)
stable_search_walk(S, p, lo, hi, prune, busy) ==
    IF lo > hi THEN [S |-> S, res |-> 0, restarts |-> 0]
    ELSE LET mid == (lo + hi) \div 2
         IN With([t \in {tree_page_of(S, S.root_stable_tree[mid], prune)} |->
            LET S1 == t.S
            IN
            IF t.again
            THEN Restarted(stable_search_walk(S1, p, 1,
                                              Len(S1.root_stable_tree),
                                              prune, busy))
            ELSE IF S1.page[p].content < S1.page[t.page].content
            THEN stable_search_walk(S1, p, lo, mid - 1, prune, busy)
            ELSE IF S1.page[p].content > S1.page[t.page].content
            THEN stable_search_walk(S1, p, mid + 1, hi, prune, busy)
            ELSE IF t.dup = 0 THEN [S |-> S1, res |-> 0, restarts |-> 0]
            ELSE IF busy THEN [S |-> S1, res |-> -1, restarts |-> 0]
            ELSE [S |-> S1, res |-> S1.stable_node[t.dup].kpfn,
                  restarts |-> 0]])

page_stable_node(S, p) == IF PageKsm(S, p) THEN S.page[p].node ELSE 0

stable_tree_search(S, p, prune, busy) ==
    IF page_stable_node(S, p) # 0 THEN [S |-> S, res |-> p, restarts |-> 0]
    ELSE stable_search_walk(S, p, 1, Len(S.root_stable_tree), prune, busy)

\* the walk of stable_tree_insert with equal content taken for greater
RECURSIVE stable_insert_walk_ge(_, _, _, _)
stable_insert_walk_ge(S, kpage, lo, hi) ==
    IF lo > hi
    THEN [S |-> S, pos |-> lo, need_chain |-> FALSE, stable_node |-> 0,
          restarts |-> 0]
    ELSE LET mid == (lo + hi) \div 2
         IN With([t \in {tree_page_of(S, S.root_stable_tree[mid], FALSE)} |->
            IF t.again
            THEN Restarted(stable_insert_walk_ge(t.S, kpage, 1,
                                                 Len(t.S.root_stable_tree)))
            ELSE IF t.S.page[kpage].content < t.S.page[t.page].content
            THEN stable_insert_walk_ge(t.S, kpage, lo, mid - 1)
            ELSE stable_insert_walk_ge(t.S, kpage, mid + 1, hi)])

\* the walk of stable_tree_insert: [S, pos, need_chain, stable_node]
RECURSIVE stable_insert_walk(_, _, _, _)
stable_insert_walk(S, kpage, lo, hi) ==
    IF lo > hi
    THEN [S |-> S, pos |-> lo, need_chain |-> FALSE, stable_node |-> 0,
          restarts |-> 0]
    ELSE LET mid == (lo + hi) \div 2
         IN With([t \in {tree_page_of(S, S.root_stable_tree[mid], FALSE)} |->
            LET S1 == t.S
            IN
            IF t.again
            THEN Restarted(stable_insert_walk(S1, kpage, 1,
                                              Len(S1.root_stable_tree)))
            ELSE IF S1.page[kpage].content < S1.page[t.page].content
            THEN stable_insert_walk(S1, kpage, lo, mid - 1)
            ELSE IF S1.page[kpage].content > S1.page[t.page].content
            THEN stable_insert_walk(S1, kpage, mid + 1, hi)
            ELSE [S |-> S1, pos |-> mid, need_chain |-> TRUE,
                  stable_node |-> S1.root_stable_tree[mid], restarts |-> 0]])

\* stable_tree_insert that hands the chain to its caller
stable_tree_insert_chain(S, kpage, fault) ==
    With([w \in {stable_insert_walk(S, kpage, 1, Len(S.root_stable_tree))} |->
    LET S0 == w.S
    IN IF fault = "alloc" \/ ~HasFreeNode(S0) THEN [S |-> S0, node |-> 0]
       ELSE
       LET dup == alloc_stable_node(S0)
           S1 == [S0 EXCEPT
                    !.stable_node[dup] = [head |-> "rb", kpfn |-> kpage,
                                          rmap_hlist_len |-> 0, hlist |-> <<>>],
                    !.page[kpage] = [@ EXCEPT !.kind = "ksm", !.node = dup]]
       IN IF ~w.need_chain
          THEN [S |-> [S1 EXCEPT !.root_stable_tree = InsertAt(@, w.pos, dup)],
                node |-> dup]
          ELSE IF is_stable_node_chain(S1, w.stable_node)
          THEN [S |-> stable_node_chain_add_dup(S1, dup, w.stable_node),
                node |-> w.stable_node]
          ELSE IF fault = "chainalloc" \/ ~HasFreeNode(S1)
          THEN [S |-> [S1 EXCEPT !.stable_node[dup] = FreeNode], node |-> 0]
          ELSE LET chain == alloc_stable_node(S1)
                   S2 == alloc_stable_node_chain(S1, w.stable_node, chain)
               IN [S |-> stable_node_chain_add_dup(S2, dup, chain),
                   node |-> chain]])

\* [S, node]: node is 0 when an allocation failed (fault, or no node left)
stable_tree_insert(S, kpage, fault) ==
    With([w \in {stable_insert_walk(S, kpage, 1, Len(S.root_stable_tree))} |->
    LET S0 == w.S
    IN IF fault = "alloc" \/ ~HasFreeNode(S0) THEN [S |-> S0, node |-> 0]
       ELSE
       LET dup == alloc_stable_node(S0)
           S1 == [S0 EXCEPT
                    !.stable_node[dup] = [head |-> "rb", kpfn |-> kpage,
                                          rmap_hlist_len |-> 0, hlist |-> <<>>],
                    !.page[kpage] = [@ EXCEPT !.kind = "ksm", !.node = dup]]
       IN IF ~w.need_chain
          THEN [S |-> [S1 EXCEPT !.root_stable_tree = InsertAt(@, w.pos, dup)],
                node |-> dup]
          ELSE IF is_stable_node_chain(S1, w.stable_node)
          THEN [S |-> stable_node_chain_add_dup(S1, dup, w.stable_node),
                node |-> dup]
          ELSE IF fault = "chainalloc" \/ ~HasFreeNode(S1)
          THEN [S |-> [S1 EXCEPT !.stable_node[dup] = FreeNode], node |-> 0]
          ELSE LET chain == alloc_stable_node(S1)
                   S2 == alloc_stable_node_chain(S1, w.stable_node, chain)
               IN [S |-> stable_node_chain_add_dup(S2, dup, chain),
                   node |-> dup]])

\* stable_tree_append that counts every record as a sharing one
stable_tree_append_sharing(S, u, n, bypass) ==
    IF n = 0 \/ S.stable_node[n].head = "free"
       \/ S.stable_node[n].rmap_hlist_len < 0
    THEN [S EXCEPT !.bug = "stable_tree_append"]
    ELSE [S EXCEPT
            !.stable_node[n].rmap_hlist_len = @ + 1,
            !.rmap[u] = [@ EXCEPT !.head = n, !.flag = "stable"],
            !.ksm_pages_sharing = @ + 1,
            !.lksm_slot_nr_merged = @ + 1]

\* the record u joins the list of the node n
stable_tree_append(S, u, n, bypass) ==
    IF n = 0 \/ S.stable_node[n].head = "free"
       \/ S.stable_node[n].rmap_hlist_len < 0
    THEN [S EXCEPT !.bug = "stable_tree_append"]
    ELSE LET others == Hlist(S, n) # {}
         IN [S EXCEPT
               !.stable_node[n].rmap_hlist_len = @ + 1,
               !.rmap[u] = [@ EXCEPT !.head = n, !.flag = "stable"],
               !.ksm_pages_sharing = IF others THEN @ + 1 ELSE @,
               !.lksm_slot_nr_merged = IF others THEN @ + 1 ELSE @,
               !.ksm_pages_shared = IF others THEN @ ELSE @ + 1]

(***************************************************************************)
(* The unstable tree.                                                      *)
(***************************************************************************)
\* follow_page under find_mergeable_vma: the page, 0 for NULL
get_mergeable_page(S, u) ==
    IF find_mergeable_vma(S, u) /\ S.pte[u] # 0 /\ PageAnon(S, S.pte[u])
    THEN S.pte[u] ELSE 0

\* [S, item, page]: item is 0 for NULL
RECURSIVE unstable_walk(_, _, _, _, _)
unstable_walk(S, u, p, lo, hi) ==
    IF lo > hi
    THEN [S |-> [S EXCEPT
                   !.rmap[u] = [@ EXCEPT !.flag = "unstable", !.head = 0,
                                  !.seqnr = S.ksm_scan.scan_round % (SEQNR_MASK + 1)],
                   !.root_unstable_tree = InsertAt(@, lo, u),
                   !.ksm_pages_unshared = @ + 1],
          item |-> NoUnit, page |-> 0]
    ELSE LET mid == (lo + hi) \div 2
             t == S.root_unstable_tree[mid]
             tp == get_mergeable_page(S, t)
         IN IF tp = 0 \/ tp = p THEN [S |-> S, item |-> NoUnit, page |-> 0]
            ELSE IF S.page[p].content < S.page[tp].content
            THEN unstable_walk(S, u, p, lo, mid - 1)
            ELSE IF S.page[p].content > S.page[tp].content
            THEN unstable_walk(S, u, p, mid + 1, hi)
            ELSE [S |-> S, item |-> t, page |-> tp]

unstable_tree_search_insert(S, u, p) ==
    unstable_walk(S, u, p, 1, Len(S.root_unstable_tree))

(***************************************************************************)
(* Merging pages.                                                          *)
(***************************************************************************)
\* [S, err]; kpage is 0 for NULL; fail: the page lock or the write
\* protection of the pte could not be had
try_to_merge_one_page(S, u, p, kpage, fail) ==
    IF p = kpage THEN [S |-> S, err |-> FALSE]
    ELSE IF ~PageAnon(S, p) \/ fail THEN [S |-> S, err |-> TRUE]
    ELSE IF kpage = 0
    THEN [S |-> [S EXCEPT !.page[p] = [@ EXCEPT !.kind = "ksm", !.node = 0]],
          err |-> FALSE]
    ELSE IF S.page[p].content = S.page[kpage].content /\ S.pte[u] = p
    THEN [S |-> put_unmapped([S EXCEPT !.pte[u] = kpage], p), err |-> FALSE]
    ELSE [S |-> S, err |-> TRUE]

try_to_merge_with_ksm_page(S, u, p, kpage, fail) ==
    IF ~find_mergeable_vma(S, u) THEN [S |-> S, err |-> TRUE]
    ELSE With([m \in {try_to_merge_one_page(S, u, p, kpage, fail)} |->
            IF m.err THEN m
            ELSE [S |-> remove_rmap_item_from_tree(m.S, u), err |-> FALSE]])

break_ksm(S, u) ==
    IF S.pte[u] # 0 /\ PageKsm(S, S.pte[u])
    THEN do_wp_copy(S, u, S.page[S.pte[u]].content)
    ELSE S

break_cow(S, u) == IF find_mergeable_vma(S, u) THEN break_ksm(S, u) ELSE S

\* [S, page]: page is the kpage, 0 for NULL
try_to_merge_two_pages(S, u, p, tree_item, tree_page, fault) ==
    With([m1 \in {try_to_merge_with_ksm_page(S, u, p, 0, fault = "merge1")} |->
       IF m1.err THEN [S |-> m1.S, page |-> 0]
       ELSE With([m2 \in {try_to_merge_with_ksm_page(m1.S, tree_item, tree_page,
                                                     p, fault = "merge2")} |->
               IF m2.err THEN [S |-> break_cow(m2.S, u), page |-> 0]
               ELSE [S |-> m2.S, page |-> p]])])

(***************************************************************************)
(* cmp_and_merge_page.  The inputs that the code takes from outside:       *)
(*   prune - the prune period of a chain met by the search has elapsed;    *)
(*   fault - "busy": the page lock of the ksm page could not be had;       *)
(*           "merge1", "merge2": the first, second pte could not be        *)
(*           replaced; "alloc", "chainalloc": no memory for a stable node  *)
(*           or a chain; "rmap_alloc": no memory for an rmap_item.         *)
(***************************************************************************)
Faults == {"none", "busy", "merge1", "merge2", "alloc", "chainalloc",
           "rmap_alloc"}

\* lksm_test_rmap_frozen of an item that always counts as frozen
lksm_test_rmap_frozen_set(S, u) == S.rmap[u].oldchecksum % 2 \in {0, FROZEN_BIT}

lksm_test_rmap_frozen(S, u) == S.rmap[u].oldchecksum % 2 = FROZEN_BIT
set_frozen(x) == IF x % 2 = 0 THEN x + FROZEN_BIT ELSE x
clear_frozen(x) == IF x % 2 = 0 THEN x ELSE x - FROZEN_BIT

\* from the unstable tree search on, the tree item left unattached
cmp_unstable_one(S, u, p, fault) ==
    With([t \in {unstable_tree_search_insert(S, u, p)} |->
       IF t.item = NoUnit THEN t.S
       ELSE With([k \in {try_to_merge_two_pages(t.S, u, p, t.item, t.page,
                                                fault)} |->
               IF k.page = 0 THEN k.S
               ELSE With([ins \in {stable_tree_insert(k.S, k.page, fault)} |->
                       IF ins.node # 0
                       THEN stable_tree_append(ins.S, u, ins.node, FALSE)
                       ELSE break_cow(break_cow(ins.S, t.item), u)])])])

\* from the unstable tree search on
\* the unstable step of cmp_and_merge_page in which a failed
\* stable_tree_insert puts the tree record back into the unstable tree
cmp_unstable_relink(S, u, p, fault) ==
    With([t \in {unstable_tree_search_insert(S, u, p)} |->
       IF t.item = NoUnit THEN t.S
       ELSE With([k \in {try_to_merge_two_pages(t.S, u, p, t.item, t.page,
                                                fault)} |->
               IF k.page = 0 THEN k.S
               ELSE With([ins \in {stable_tree_insert(k.S, k.page, fault)} |->
                       IF ins.node # 0
                       THEN stable_tree_append(
                                stable_tree_append(ins.S, t.item, ins.node, FALSE),
                                u, ins.node, FALSE)
                       ELSE With([b \in {break_cow(break_cow(ins.S, t.item), u)} |->
                               [b EXCEPT !.rmap[t.item].flag = "unstable",
                                         !.rmap[t.item].seqnr = t.S.rmap[t.item].seqnr,
                                         !.root_unstable_tree = t.S.root_unstable_tree,
                                         !.ksm_pages_unshared = @ + 1]])])])])

cmp_unstable(S, u, p, fault) ==
    With([t \in {unstable_tree_search_insert(S, u, p)} |->
       IF t.item = NoUnit THEN t.S
       ELSE With([k \in {try_to_merge_two_pages(t.S, u, p, t.item, t.page,
                                                fault)} |->
               IF k.page = 0 THEN k.S
               ELSE With([ins \in {stable_tree_insert(k.S, k.page, fault)} |->
                       IF ins.node # 0
                       THEN stable_tree_append(
                                stable_tree_append(ins.S, t.item, ins.node, FALSE),
                                u, ins.node, FALSE)
                       ELSE break_cow(break_cow(ins.S, t.item), u)])])])

\* the steps of cmp_and_merge_page after the stable tree: the checksum
\* filter, then the unstable tree
cmp_checksum_unstable(S, u, p, fault) ==
    IF /\ S.ksm_scan.scan_round < initial_round
       /\ ~lksm_test_rmap_frozen(S, u)
       /\ S.rmap[u].oldchecksum # calc_checksum(S.page[p].content)
    THEN [S EXCEPT !.rmap[u].oldchecksum = calc_checksum(S.page[p].content)]
    ELSE cmp_unstable(S, u, p, fault)

\* cmp_and_merge_page that goes on to the checksum filter and the unstable
\* tree when the merge with the page of the stable tree fails
cmp_and_merge_page_fallthrough(S, u, p, prune, fault) ==
    LET sn == page_stable_node(S, p)
    IN IF sn # 0 /\ S.rmap[u].head = sn THEN S
       ELSE
       LET bypass == sn # 0 /\ ~is_page_sharing_candidate(S, sn)
       IN With([s \in {stable_tree_search(S, p, prune, fault = "busy")} |->
          LET kpage == s.res
          IN
          IF kpage = p /\ s.S.rmap[u].head = sn THEN s.S
          ELSE
          With([S1 \in {remove_rmap_item_from_tree(s.S, u)} |->
             IF kpage = -1 THEN S1
             ELSE IF kpage # 0 THEN
                 With([m \in {try_to_merge_with_ksm_page(S1, u, p, kpage,
                                                         fault = "merge1")} |->
                    IF m.err THEN cmp_checksum_unstable(m.S, u, p, fault)
                    ELSE stable_tree_append(m.S, u,
                             page_stable_node(m.S, kpage), bypass)])
             ELSE cmp_checksum_unstable(S1, u, p, fault)])])

\* cmp_and_merge_page that goes to the unstable tree without the search of
\* the stable tree
cmp_and_merge_page_unstable_first(S, u, p, prune, fault) ==
    LET sn == page_stable_node(S, p)
    IN IF sn # 0 /\ S.rmap[u].head = sn THEN S
       ELSE cmp_unstable(remove_rmap_item_from_tree(S, u), u, p, fault)

\* cmp_and_merge_page with the checksum filter in every round
cmp_and_merge_page_filter_all(S, u, p, prune, fault) ==
    LET sn == page_stable_node(S, p)
    IN IF sn # 0 /\ S.rmap[u].head = sn THEN S
       ELSE
       LET bypass == sn # 0 /\ ~is_page_sharing_candidate(S, sn)
       IN With([s \in {stable_tree_search(S, p, prune, fault = "busy")} |->
          LET kpage == s.res
          IN
          IF kpage = p /\ s.S.rmap[u].head = sn THEN s.S
          ELSE
          With([S1 \in {remove_rmap_item_from_tree(s.S, u)} |->
             IF kpage = -1 THEN S1
             ELSE IF kpage # 0 THEN
                 With([m \in {try_to_merge_with_ksm_page(S1, u, p, kpage,
                                                         fault = "merge1")} |->
                    IF m.err THEN m.S
                    ELSE stable_tree_append(m.S, u,
                             page_stable_node(m.S, kpage), bypass)])
             ELSE IF /\ ~lksm_test_rmap_frozen(S1, u)
                     /\ S1.rmap[u].oldchecksum # calc_checksum(S1.page[p].content)
             THEN [S1 EXCEPT !.rmap[u].oldchecksum =
                                 calc_checksum(S1.page[p].content)]
             ELSE cmp_unstable(S1, u, p, fault)])])

cmp_and_merge_page(S, u, p, prune, fault) ==
    LET sn == page_stable_node(S, p)
    IN IF sn # 0 /\ S.rmap[u].head = sn THEN S
       ELSE
       LET bypass == sn # 0 /\ ~is_page_sharing_candidate(S, sn)
       IN With([s \in {stable_tree_search(S, p, prune, fault = "busy")} |->
          LET kpage == s.res
          IN
          IF kpage = p /\ s.S.rmap[u].head = sn THEN s.S
          ELSE
          With([S1 \in {remove_rmap_item_from_tree(s.S, u)} |->
             IF kpage = -1 THEN S1
             ELSE IF kpage # 0 THEN
                 With([m \in {try_to_merge_with_ksm_page(S1, u, p, kpage,
                                                         fault = "merge1")} |->
                    IF m.err THEN m.S
                    ELSE stable_tree_append(m.S, u,
                             page_stable_node(m.S, kpage), bypass)])
             ELSE IF /\ S1.ksm_scan.scan_round < initial_round
                     /\ ~lksm_test_rmap_frozen(S1, u)
                     /\ S1.rmap[u].oldchecksum # calc_checksum(S1.page[p].content)
             THEN [S1 EXCEPT !.rmap[u].oldchecksum =
                                 calc_checksum(S1.page[p].content)]
             ELSE cmp_unstable(S1, u, p, fault)])])

(***************************************************************************)
(* The lists of mm_slots.                                                  *)
(***************************************************************************)
NoSlot == [st |-> "none", state |-> {}, scan_link |-> "zero", merge_idx |-> 0,
           nr_merged_win |-> [i \in 1..MERGE_WIN |-> 0], nr_merged |-> 0]

vips_erase(S, m) == [S EXCEPT !.vips_list = Without(@, m)]

lksm_remove_mm_slot(S, m) ==
    IF S.mm_slot[m].scan_link = "zero"
    THEN [S EXCEPT !.bug = "lksm_remove_mm_slot"]
    ELSE vips_erase([S EXCEPT !.mm_slot[m].st = "removed",
                              !.mm_slot[m].scan_link = "self",
                              !.scan_list = Without(@, m),
                              !.mm_list = Without(@, m),
                              !.remove_mm_list = <<m>> \o Without(@, m)], m)

dec_nr(S, m) ==
    IF "FROZEN" \in S.mm_slot[m].state
    THEN [S EXCEPT !.ksm_scan.nr_frozen = @ - 1]
    ELSE [S EXCEPT !.ksm_scan.nr_scannable = @ - 1]

\* the slots of scan_list after the i-th: [S, slot]
RECURSIVE get_unscanned_from(_, _)
get_unscanned_from(S, i) ==
    IF i >= Len(S.scan_list) THEN [S |-> S, slot |-> ScanHead]
    ELSE LET m == S.scan_list[i + 1]
         IN IF S.mm_slot[m].st = "none"
            THEN [S |-> [S EXCEPT !.bug = "lksm_get_unscanned_mm_slot"],
                  slot |-> ScanHead]
            ELSE IF ksm_test_exit(S, m)
            THEN get_unscanned_from(lksm_remove_mm_slot(dec_nr(S, m), m), i)
            ELSE [S |-> [S EXCEPT !.lksm_nr_scanned_slot = @ + 1], slot |-> m]

lksm_get_unscanned_mm_slot(S, slot) ==
    IF slot = ScanHead THEN get_unscanned_from(S, 0)
    ELSE IF slot \in Range(S.scan_list)
    THEN get_unscanned_from(S, IndexOf(S.scan_list, slot))
    ELSE [S |-> [S EXCEPT !.bug = "lksm_get_unscanned_mm_slot"],
          slot |-> ScanHead]

\* lksm_insert_mm_slot_ordered that goes left on equal keys
lksm_insert_mm_slot_ordered_ge(S, m) ==
    LET ahead == {i \in 1..Len(S.vips_list) :
                    S.mm_slot[S.vips_list[i]].nr_merged > S.mm_slot[m].nr_merged}
    IN [S EXCEPT !.vips_list = InsertAt(@, Cardinality(ahead) + 1, m)]

lksm_insert_mm_slot_ordered(S, m) ==
    LET ahead == {i \in 1..Len(S.vips_list) :
                    S.mm_slot[S.vips_list[i]].nr_merged >= S.mm_slot[m].nr_merged}
    IN [S EXCEPT !.vips_list = InsertAt(@, Cardinality(ahead) + 1, m)]

\* lksm_account_mm_slot_nr_merge that adds the value to the sum
lksm_account_mm_slot_nr_merge_total(S, m, nr) ==
    LET win == [S.mm_slot[m].nr_merged_win EXCEPT ![S.mm_slot[m].merge_idx + 1] = nr]
    IN [S EXCEPT !.mm_slot[m].nr_merged_win = win,
                 !.mm_slot[m].merge_idx = (@ + 1) % MERGE_WIN,
                 !.mm_slot[m].nr_merged = @ + nr]

lksm_account_mm_slot_nr_merge(S, m, nr) ==
    LET win == [S.mm_slot[m].nr_merged_win EXCEPT ![S.mm_slot[m].merge_idx + 1] = nr]
    IN [S EXCEPT !.mm_slot[m].nr_merged_win = win,
                 !.mm_slot[m].merge_idx = (@ + 1) % MERGE_WIN,
                 !.mm_slot[m].nr_merged = win[1] + win[2] + win[3]]

free_mm_slot(S, m) == [S EXCEPT !.mm_slot[m] = NoSlot]

\* the loop of the flush without remove_trailing_rmap_items
RECURSIVE flush_slots_keep(_, _)
flush_slots_keep(S, list) ==
    IF list = <<>> THEN S
    ELSE flush_slots_keep(free_mm_slot(S, list[1]), Tail(list))

RECURSIVE flush_slots(_, _)
flush_slots(S, list) ==
    IF list = <<>> THEN S
    ELSE flush_slots(free_mm_slot(remove_trailing_rmap_items(S, list[1], 1),
                                  list[1]), Tail(list))

\* the slots after the first are released first, the first one last
lksm_flush_removed_mm_list(S) ==
    IF S.remove_mm_list = <<>> THEN S
    ELSE flush_slots([S EXCEPT !.remove_mm_list = <<>>],
                     Tail(S.remove_mm_list) \o <<Head(S.remove_mm_list)>>)

(***************************************************************************)
(* The scan cursor.  ksm_scan.rmap_list is the address of the item whose   *)
(* link the cursor points at, 0 for the head of the slot's list, -1 for    *)
(* NULL.                                                                   *)
(***************************************************************************)
\* the loop of get_next_rmap_item over the items below addr
RECURSIVE drop_items_below(_, _, _, _)
drop_items_below(S, m, a, addr) ==
    IF a >= addr THEN S
    ELSE IF S.rmap[<<m, a>>].present
    THEN drop_items_below(
             free_rmap_item(remove_rmap_item_from_tree(S, <<m, a>>), <<m, a>>),
             m, a + 1, addr)
    ELSE drop_items_below(S, m, a + 1, addr)

\* [S, item]: item is 0 for NULL
get_next_rmap_item(S, m, addr, fault) ==
    With([S1 \in {drop_items_below(S, m, S.ksm_scan.rmap_list + 1, addr)} |->
    LET u == <<m, addr>>
        frozen == "FROZEN" \in S1.mm_slot[m].state
    IN IF S1.rmap[u].present
       THEN [S |-> [S1 EXCEPT !.rmap[u].oldchecksum =
                        IF frozen /\ S1.rmap[u].flag = "unstable"
                        THEN set_frozen(@) ELSE clear_frozen(@)],
             item |-> u]
       ELSE IF fault = "rmap_alloc" THEN [S |-> S1, item |-> NoUnit]
       ELSE [S |-> [S1 EXCEPT
                      !.ksm_rmap_items = @ + 1,
                      !.rmap[u] = [NoItem EXCEPT !.present = TRUE,
                                     !.oldchecksum = IF frozen THEN FROZEN_BIT
                                                     ELSE 0]],
             item |-> u]])

\* the loop of __scan_next_rmap_item over the mergeable vma: [S, item, page]
RECURSIVE scan_vma(_, _, _)
scan_vma(S, m, fault) ==
    LET a == S.ksm_scan.address
    IN IF a >= VmEnd THEN [S |-> S, item |-> NoUnit, page |-> 0]
       ELSE IF S.pte[<<m, a>>] = 0
       THEN scan_vma([S EXCEPT !.ksm_scan.address = a + 1], m, fault)
       ELSE With([g \in {get_next_rmap_item(S, m, a, fault)} |->
               IF g.item = NoUnit THEN [S |-> g.S, item |-> NoUnit, page |-> 0]
               ELSE [S |-> [g.S EXCEPT !.ksm_scan.rmap_list = a,
                                       !.ksm_scan.address = a + 1],
                     item |-> g.item, page |-> S.pte[<<m, a>>]]])

scan_next_rmap_item(S, m, fault) ==
    IF ksm_test_exit(S, m) THEN [S |-> S, item |-> NoUnit, page |-> 0]
    ELSE scan_vma([S EXCEPT !.ksm_scan.address = IF @ < 1 THEN 1 ELSE @],
                  m, fault)

\* the bookkeeping that puts every scanned slot in the rank tree
slot_scanned_ranked(S, m) ==
    LET S1 == dec_nr(S, m)
        S2 == vips_erase([S1 EXCEPT
                  !.mm_slot[m].state = (@ \ {"NEWCOMER", "FROZEN"}) \cup {"SCANNED"},
                  !.mm_slot[m].scan_link = "self",
                  !.scan_list = Without(@, m)], m)
        S3 == lksm_account_mm_slot_nr_merge(S2, m, S2.lksm_slot_nr_merged)
    IN lksm_insert_mm_slot_ordered(S3, m)

\* the bookkeeping of a slot whose scan completed
slot_scanned(S, m) ==
    LET S1 == dec_nr(S, m)
        S2 == vips_erase([S1 EXCEPT
                  !.mm_slot[m].state = (@ \ {"NEWCOMER", "FROZEN"}) \cup {"SCANNED"},
                  !.mm_slot[m].scan_link = "self",
                  !.scan_list = Without(@, m)], m)
        S3 == lksm_account_mm_slot_nr_merge(S2, m, S2.lksm_slot_nr_merged)
    IN IF S3.mm_slot[m].nr_merged # 0
       THEN lksm_insert_mm_slot_ordered(S3, m) ELSE S3

\* scan_get_next_rmap_item from the test of ksm_scan.rmap_list on
RECURSIVE scan_slot(_, _)
scan_slot(S, fault) ==
    LET m == S.ksm_scan.mm_slot
    IN IF m \notin MMs \/ S.mm_slot[m].st = "none"
       THEN [S |-> [S EXCEPT !.bug = "scan_get_next_rmap_item"],
             item |-> NoUnit, page |-> 0]
       ELSE
       LET S0 == IF S.ksm_scan.rmap_list = -1
                 THEN [S EXCEPT !.ksm_scan.rmap_list = 0] ELSE S
       IN With([r \in {scan_next_rmap_item(S0, m, fault)} |->
          IF r.item # NoUnit THEN r
          ELSE
          LET S1 == IF ksm_test_exit(r.S, m)
                    THEN [r.S EXCEPT !.ksm_scan.address = 0,
                                     !.ksm_scan.rmap_list = 0]
                    ELSE r.S
          IN
          With([S2 \in {remove_trailing_rmap_items(
                            S1, m, S1.ksm_scan.rmap_list + 1)} |->
          With([g \in {lksm_get_unscanned_mm_slot(S2, m)} |->
          With([S3 \in {[g.S EXCEPT !.ksm_scan.mm_slot = g.slot]} |->
          With([S4 \in {IF S3.ksm_scan.address = 0
                        THEN lksm_remove_mm_slot(dec_nr(S3, m), m)
                        ELSE slot_scanned(S3, m)} |->
          LET S5 == [S4 EXCEPT !.lksm_slot_nr_merged = 0]
          IN IF g.slot # ScanHead /\ S5.bug = "none"
             THEN scan_slot([S5 EXCEPT !.ksm_scan.address = 0,
                                       !.ksm_scan.rmap_list = 0], fault)
             ELSE [S |-> S5, item |-> NoUnit, page |-> 0]])])])])])

\* scan_get_next_rmap_item that keeps the unstable tree over the round
scan_get_next_rmap_item_keep(S, fault) ==
    IF S.scan_list = <<>> THEN [S |-> S, item |-> NoUnit, page |-> 0]
    ELSE IF S.ksm_scan.mm_slot = ScanHead THEN
        LET S1 == IF S.ksm_scan.scan_round < S.ksm_crawl_round
                  THEN [S EXCEPT !.ksm_scan.scan_round = S.ksm_crawl_round]
                  ELSE S
        IN With([g \in {lksm_get_unscanned_mm_slot(S1, ScanHead)} |->
           LET S2 == [g.S EXCEPT !.ksm_scan.mm_slot = g.slot]
           IN
           IF g.slot = ScanHead THEN [S |-> S2, item |-> NoUnit, page |-> 0]
           ELSE scan_slot([S2 EXCEPT !.ksm_scan.address = 0,
                                     !.ksm_scan.rmap_list = 0], fault)])
    ELSE scan_slot(S, fault)

\* [S, item, page]: item is 0 for NULL
scan_get_next_rmap_item(S, fault) ==
    IF S.scan_list = <<>> THEN [S |-> S, item |-> NoUnit, page |-> 0]
    ELSE IF S.ksm_scan.mm_slot = ScanHead THEN
        LET S1 == IF S.ksm_scan.scan_round < S.ksm_crawl_round
                  THEN [S EXCEPT !.ksm_scan.scan_round = S.ksm_crawl_round,
                                 !.root_unstable_tree = <<>>]
                  ELSE S
        IN With([g \in {lksm_get_unscanned_mm_slot(S1, ScanHead)} |->
           LET S2 == [g.S EXCEPT !.ksm_scan.mm_slot = g.slot]
           IN
           IF g.slot = ScanHead THEN [S |-> S2, item |-> NoUnit, page |-> 0]
           ELSE scan_slot([S2 EXCEPT !.ksm_scan.address = 0,
                                     !.ksm_scan.rmap_list = 0], fault)])
    ELSE scan_slot(S, fault)

\* one pass of the loop of ksm_do_scan: [S, need_to_sleep]
ksm_do_scan(S, prune, fault) ==
    With([r \in {scan_get_next_rmap_item(S, fault)} |->
       IF r.item = NoUnit THEN [S |-> r.S, need_to_sleep |-> TRUE]
       ELSE [S |-> cmp_and_merge_page(r.S, r.item, r.page, prune, fault),
             need_to_sleep |-> FALSE]])

run_merge(S) == S.ksm_run % 2 = KSM_RUN_MERGE
run_unmerge(S) == (S.ksm_run \div 2) % 2 = 1
run_oneshot(S) == (S.ksm_run \div KSM_RUN_ONESHOT) % 2 = 1

ksmd_should_run(S) == run_merge(S) /\ S.scan_list # <<>>

(***************************************************************************)
(* Registration and exit of an mm.                                         *)
(***************************************************************************)
ksm_enter_alloc_slot(S, m, frozen) ==
    LET slot == [NoSlot EXCEPT
                   !.st = "hashed",
                   !.state = IF frozen THEN {"FROZEN", "NEWCOMER"}
                             ELSE {"LISTED", "NEWCOMER"},
                   !.scan_link = IF run_unmerge(S) THEN "zero" ELSE "on"]
    IN [S EXCEPT !.mm_slot[m] = slot,
                 !.mm_list = Append(@, m),
                 !.scan_list = IF run_unmerge(S) THEN @ ELSE Append(@, m)]

\* [S, ret]: ret is 1 when the slot was newly allocated
ksm_join(S, m, frozen) ==
    IF S.mm_slot[m].st = "none"
    THEN [S |-> ksm_enter_alloc_slot(S, m, frozen), ret |-> 1]
    ELSE [S |-> S, ret |-> 0]

HasItems(S, m) == \E a \in Addrs : S.rmap[<<m, a>>].present

\* __ksm_exit without the test of the scan cursor
ksm_exit_at_cursor(S, m) ==
    IF S.mm_slot[m].st # "hashed" THEN S
    ELSE
    LET S1 == IF ~HasItems(S, m)
              THEN vips_erase([S EXCEPT !.mm_list = Without(@, m),
                                        !.scan_list = Without(@, m)], m)
              ELSE lksm_remove_mm_slot(S, m)
    IN IF ~HasItems(S, m) THEN free_mm_slot(S1, m) ELSE S1

ksm_exit(S, m) ==
    IF S.mm_slot[m].st # "hashed" THEN S
    ELSE IF S.ksm_scan.mm_slot = m THEN S
    ELSE
    LET S1 == IF ~HasItems(S, m)
              THEN IF S.mm_slot[m].scan_link = "zero"
                   THEN [S EXCEPT !.bug = "__ksm_exit"]
                   ELSE vips_erase([S EXCEPT !.mm_list = Without(@, m),
                                             !.scan_list = Without(@, m)], m)
              ELSE lksm_remove_mm_slot(S, m)
        S2 == IF "FROZEN" \in S.mm_slot[m].state
              THEN [S1 EXCEPT !.ksm_scan.nr_frozen = @ - 1]
              ELSE IF "SCANNED" \notin S.mm_slot[m].state
              THEN [S1 EXCEPT !.ksm_scan.nr_scannable = @ - 1]
              ELSE S1
    IN IF ~HasItems(S, m) /\ S2.bug = "none" THEN free_mm_slot(S2, m) ELSE S2

(***************************************************************************)
(* Unmerging.                                                              *)
(***************************************************************************)
RECURSIVE unmerge_ksm_pages(_, _, _)
unmerge_ksm_pages(S, m, a) ==
    IF a >= VmEnd \/ ksm_test_exit(S, m) THEN S
    ELSE unmerge_ksm_pages(break_ksm(S, <<m, a>>), m, a + 1)

\* [S, err]: err is TRUE for -EBUSY
remove_stable_node(S, n) ==
    With([g \in {get_ksm_page(S, n)} |->
       IF g.page = 0 THEN [S |-> g.S, err |-> FALSE]
       ELSE IF page_mapped(S, g.page) THEN [S |-> S, err |-> TRUE]
       ELSE [S |-> remove_node_from_stable_tree(
                       [S EXCEPT !.page[g.page].node = 0], n),
             err |-> FALSE]])

RECURSIVE remove_dups(_, _)
remove_dups(S, list) ==
    IF list = <<>> THEN [S |-> S, err |-> FALSE]
    ELSE With([r \in {remove_stable_node(S, list[1])} |->
            IF r.err THEN r ELSE remove_dups(r.S, Tail(list))])

remove_stable_node_chain(S, n) ==
    IF ~is_stable_node_chain(S, n) THEN remove_stable_node(S, n)
    ELSE With([r \in {remove_dups(S, S.stable_node[n].hlist)} |->
            IF r.err THEN r
            ELSE IF r.S.stable_node[n].hlist # <<>>
            THEN [S |-> [r.S EXCEPT !.bug = "remove_stable_node_chain"],
                  err |-> FALSE]
            ELSE [S |-> free_stable_node_chain(r.S, n), err |-> FALSE]])

\* the node at the root of the stable rbtree
root_node(S) == S.root_stable_tree[(Len(S.root_stable_tree) + 1) \div 2]

RECURSIVE remove_all_stable_nodes(_)
remove_all_stable_nodes(S) ==
    IF S.root_stable_tree = <<>> \/ S.bug # "none" THEN [S |-> S, err |-> FALSE]
    ELSE With([r \in {remove_stable_node_chain(S, root_node(S))} |->
            IF r.err THEN r ELSE remove_all_stable_nodes(r.S)])

\* the loop of unmerge_and_remove_all_rmap_items over the slots of mm_list
\* from the i-th on
RECURSIVE unmerge_slots(_, _)
unmerge_slots(S, i) ==
    IF i > Len(S.mm_list) THEN S
    ELSE LET m == S.mm_list[i]
         IN With([S1 \in {remove_trailing_rmap_items(
                              unmerge_ksm_pages(S, m, 1), m, 1)} |->
            IF ksm_test_exit(S1, m)
            THEN unmerge_slots(free_mm_slot([S1 EXCEPT !.mm_list = Without(@, m)],
                                            m), i)
            ELSE unmerge_slots(S1, i + 1)])

unmerge_and_remove_all_rmap_items(S) ==
    [remove_all_stable_nodes(unmerge_slots(S, 1)).S EXCEPT
        !.ksm_scan.mm_slot = MmHead, !.ksm_scan.scan_round = 0]

\* the value unmerge_and_remove_all_rmap_items returns, with busy for the
\* result of remove_all_stable_nodes, which it drops
unmerge_err_busy(S) ==
    With([r \in {remove_all_stable_nodes(unmerge_slots(S, 1))} |->
        [err |-> IF r.err THEN -16 ELSE 0, busy |-> r.err]])

unmerge_err(S) ==
    With([r \in {remove_all_stable_nodes(unmerge_slots(S, 1))} |->
        [err |-> 0, busy |-> r.err]])

\* what the write of flags returns: 0 for count, else the error
run_store_ret(S, flags) ==
    IF S.ksm_run # flags /\ flags = KSM_RUN_UNMERGE
    THEN unmerge_err([S EXCEPT !.ksm_run = flags]).err
    ELSE 0

run_store(S, flags) ==
    IF S.ksm_run = flags THEN S
    ELSE LET S1 == [S EXCEPT !.ksm_run = IF flags = KSM_RUN_ONESHOT
                                          THEN KSM_RUN_MERGE + KSM_RUN_ONESHOT
                                          ELSE flags]
         IN IF flags = KSM_RUN_UNMERGE
            THEN unmerge_and_remove_all_rmap_items(S1) ELSE S1

(***************************************************************************)
(* Round preparation (the crawler).                                        *)
(***************************************************************************)
\* the loop of lksm_prepare_frozen_scan: [S, nr_added]
RECURSIVE join_frozen(_, _, _)
join_frozen(S, list, nr_added) ==
    IF list = <<>> THEN [S |-> S, nr_added |-> nr_added]
    ELSE IF ksm_test_exit(S, list[1])
    THEN join_frozen(S, Tail(list), nr_added)
    ELSE With([j \in {ksm_join(S, list[1], TRUE)} |->
            join_frozen(j.S, Tail(list),
                        IF j.ret = 0 THEN nr_added + 1 ELSE nr_added)])

\* [S, ret]
lksm_prepare_frozen_scan(S) ==
    IF S.frozen_task_list = <<>> THEN [S |-> S, ret |-> S.ksm_scan.nr_frozen]
    ELSE IF run_unmerge(S)
    THEN [S |-> [S EXCEPT !.frozen_task_list = <<>>], ret |-> 0]
    ELSE With([j \in {join_frozen([S EXCEPT !.frozen_task_list = <<>>],
                                  S.frozen_task_list, 0)} |->
            [S |-> [j.S EXCEPT !.ksm_scan.nr_frozen = @ + j.nr_added],
             ret |-> j.nr_added + S.ksm_scan.nr_frozen]])

\* for_each_process with ksm_join: [S, nr_added]
RECURSIVE join_all(_, _, _)
join_all(S, m, nr_added) ==
    IF m > NumMM THEN [S |-> S, nr_added |-> nr_added]
    ELSE IF S.mm_stage[m] # "live" THEN join_all(S, m + 1, nr_added)
    ELSE With([j \in {ksm_join(S, m, FALSE)} |->
            join_all(j.S, m + 1, nr_added + j.ret)])

\* [S, count]
RECURSIVE count_and_clear(_, _, _)
count_and_clear(S, i, count) ==
    IF i > Len(S.mm_list) THEN [S |-> S, count |-> count]
    ELSE LET m == S.mm_list[i]
         IN IF S.mm_slot[m].scan_link = "self"
            THEN count_and_clear(
                     [S EXCEPT !.mm_slot[m].state = @ \ {"SCANNED"},
                               !.mm_slot[m].scan_link = "on",
                               !.scan_list = Append(@, m)], i + 1, count + 1)
            ELSE count_and_clear(S, i + 1, count)

lksm_count_and_clear_mm_slots(S) == count_and_clear(S, 1, 0)

\* [S, ret]
lksm_prepare_full_scan(S) ==
    With([f \in {lksm_prepare_frozen_scan(S)} |->
       IF run_unmerge(f.S) /\ \E m \in MMs : f.S.mm_stage[m] = "live"
       THEN [S |-> f.S, ret |-> 0]
       ELSE With([j \in {join_all(f.S, 1, 0)} |->
            With([c \in {lksm_count_and_clear_mm_slots(j.S)} |->
               [S |-> [c.S EXCEPT
                         !.ksm_scan.scan_mode = "FULL",
                         !.ksm_crawl_round = @ + 1,
                         !.ksm_scan.nr_scannable = @ + c.count + j.nr_added],
                ret |-> c.count + j.nr_added + f.ret]])])])

\* the loop of lksm_prepare_partial_scan over the vips without the test of
\* lksm_max_vips
RECURSIVE get_vips_unbounded(_, _, _, _, _, _)
get_vips_unbounded(S, list, changed, recheck, nr, others) ==
    IF list = <<>> \/ S.bug # "none"
    THEN [S |-> S, recheck |-> recheck, nr |-> nr]
    ELSE LET m == list[1]
         IN IF ksm_test_exit(S, m)
            THEN [S |-> lksm_remove_mm_slot(
                            IF "SCANNED" \notin S.mm_slot[m].state
                            THEN [S EXCEPT !.ksm_scan.nr_scannable = @ - 1]
                            ELSE S, m),
                  recheck |-> recheck, nr |-> nr]
            ELSE IF "LISTED" \notin S.mm_slot[m].state \/ m \notin changed
            THEN get_vips_unbounded(S, Tail(list), changed, recheck, nr, others)
            ELSE IF S.mm_slot[m].scan_link = "zero"
            THEN get_vips_unbounded([S EXCEPT !.bug = "lksm_prepare_partial_scan"],
                                    Tail(list), changed, recheck, nr, others)
            ELSE get_vips_unbounded(
                     [S EXCEPT !.scan_list = Without(@, m),
                               !.mm_slot[m].scan_link = "on",
                               !.mm_slot[m].state = @ \ {"SCANNED"}],
                     Tail(list), changed, Append(recheck, m), nr + 1, others)

\* the loop of lksm_prepare_partial_scan over the vips, best first; changed
\* is the set of slots whose fault count moved, others is nr_added +
\* nr_frozen: [S, recheck, nr].  lksm_remove_mm_slot clears the node of an
\* exited slot (RB_CLEAR_NODE), rb_next of a cleared node is NULL, and the
\* loop ends there.
RECURSIVE get_vips(_, _, _, _, _, _)
get_vips(S, list, changed, recheck, nr, others) ==
    IF list = <<>> \/ S.bug # "none" \/ nr + others >= S.lksm_max_vips
    THEN [S |-> S, recheck |-> recheck, nr |-> nr]
    ELSE LET m == list[1]
         IN IF ksm_test_exit(S, m)
            THEN [S |-> lksm_remove_mm_slot(
                            IF "SCANNED" \notin S.mm_slot[m].state
                            THEN [S EXCEPT !.ksm_scan.nr_scannable = @ - 1]
                            ELSE S, m),
                  recheck |-> recheck, nr |-> nr]
            ELSE IF "LISTED" \notin S.mm_slot[m].state \/ m \notin changed
            THEN get_vips(S, Tail(list), changed, recheck, nr, others)
            ELSE IF S.mm_slot[m].scan_link = "zero"
            THEN get_vips([S EXCEPT !.bug = "lksm_prepare_partial_scan"],
                          Tail(list), changed, recheck, nr, others)
            ELSE get_vips([S EXCEPT !.scan_list = Without(@, m),
                                    !.mm_slot[m].scan_link = "on",
                                    !.mm_slot[m].state = @ \ {"SCANNED"}],
                          Tail(list), changed, Append(recheck, m), nr + 1,
                          others)

\* [S, ret]
lksm_prepare_partial_scan(S, changed) ==
    With([f \in {lksm_prepare_frozen_scan(S)} |->
       IF run_unmerge(f.S) /\ \E m \in MMs : f.S.mm_stage[m] = "live"
       THEN [S |-> f.S, ret |-> 0]
       ELSE With([j \in {join_all(f.S, 1, 0)} |->
            IF /\ run_unmerge(j.S) /\ j.S.vips_list # <<>>
               /\ j.nr_added + f.ret < j.S.lksm_max_vips
            THEN [S |-> j.S, ret |-> 0]
            ELSE
            With([v \in {get_vips(j.S, j.S.vips_list, changed, <<>>, 0,
                                  j.nr_added + f.ret)} |->
               [S |-> [v.S EXCEPT
                         !.scan_list = v.recheck \o @,
                         !.ksm_scan.scan_mode = "PARTIAL",
                         !.ksm_crawl_round = @ + 1,
                         !.ksm_scan.nr_scannable = @ + v.nr + j.nr_added],
                ret |-> f.ret + j.nr_added + v.nr]])])])

lksm_wake_up_scan_thread(S) == [S EXCEPT !.ksm_state = 1]

(***************************************************************************)
(* Wrap-up (the scanner).                                                  *)
(***************************************************************************)
lksm_scan_wrapup_wait(S) ==
    [S EXCEPT !.ksm_scan.nr_full_scan =
                  IF S.ksm_scan.scan_mode = "FULL" THEN @ + 1 ELSE @,
              !.lksm_nr_scanned_slot = 0,
              !.ksm_scan.scan_mode = "NONE",
              !.ksm_one_shot_scanning = IF run_oneshot(S) THEN LKSM_SCAN_NONE
                                        ELSE @,
              !.ksm_state = 0]

\* lksm_flush_removed_mm_list, the scan time per slot, lksm_scan_wrapup_wait;
\* trap: a division by zero traps on this machine
wrapup(S, trap) ==
    With([S1 \in {lksm_flush_removed_mm_list(S)} |->
       IF S1.lksm_nr_scanned_slot = 0 /\ trap
       THEN [S1 EXCEPT !.bug = "lksm_scan_thread"]
       ELSE lksm_scan_wrapup_wait(S1)])

(***************************************************************************)
(* The freezer hooks.                                                      *)
(***************************************************************************)
lksm_task_frozen(S, m) ==
    IF S.mm_slot[m].st = "none"
    THEN [S EXCEPT !.frozen_task_list = <<m>> \o Without(@, m)]
    ELSE IF S.mm_slot[m].st = "removed" THEN [S EXCEPT !.bug = "lksm_task_frozen"]
    ELSE IF S.ksm_scan.mm_slot # m /\ "LISTED" \in S.mm_slot[m].state
    THEN [S EXCEPT
            !.scan_list = IF S.mm_slot[m].scan_link = "self"
                          THEN Append(@, m) ELSE @,
            !.mm_slot[m].scan_link = IF @ = "self" THEN "on" ELSE @,
            !.mm_slot[m].state = (@ \ {"LISTED"}) \cup {"FROZEN"},
            !.ksm_scan.nr_scannable =
                IF "SCANNED" \notin S.mm_slot[m].state THEN @ - 1 ELSE @,
            !.ksm_scan.nr_frozen = @ + 1]
    ELSE S

lksm_task_thawed(S, m) ==
    IF S.mm_slot[m].st = "none"
    THEN [S EXCEPT !.frozen_task_list = Without(@, m)]
    ELSE IF S.mm_slot[m].st = "removed" THEN [S EXCEPT !.bug = "lksm_task_thawed"]
    ELSE IF "FROZEN" \in S.mm_slot[m].state /\ S.ksm_scan.mm_slot # m
    THEN LET scanned == "SCANNED" \in S.mm_slot[m].state
         IN IF scanned /\ S.mm_slot[m].scan_link = "zero"
            THEN [S EXCEPT !.bug = "lksm_task_thawed"]
            ELSE [S EXCEPT
                    !.scan_list = IF scanned THEN Without(@, m) ELSE @,
                    !.mm_slot[m].scan_link = IF scanned THEN "self" ELSE @,
                    !.mm_slot[m].state = (@ \ {"FROZEN"}) \cup {"LISTED"},
                    !.ksm_scan.nr_scannable = IF scanned THEN @ ELSE @ + 1,
                    !.ksm_scan.nr_frozen = @ - 1]
    ELSE S

\* owner is FALSE when the mm has lost its owner task
lksm_remove_candidate(S, m, owner) ==
    IF owner THEN [S EXCEPT !.frozen_task_list = Without(@, m)]
    ELSE IF S.mm_slot[m].st = "hashed" /\ S.ksm_scan.mm_slot # m
    THEN LET S1 == [S EXCEPT !.mm_list = Without(@, m),
                             !.remove_mm_list = <<m>> \o Without(@, m)]
         IN IF "FROZEN" \in S.mm_slot[m].state
            THEN [S1 EXCEPT !.ksm_scan.nr_frozen = @ - 1]
            ELSE IF "SCANNED" \notin S.mm_slot[m].state
            THEN [S1 EXCEPT !.ksm_scan.nr_scannable = @ - 1]
            ELSE S1
    ELSE S

(***************************************************************************)
(* The initial state: ksm_init has run, both threads are created, no mm is *)
(* registered; the live address spaces have their pages resident.          *)
(***************************************************************************)
HomePage(u) == (u[1] - 1) * MaxAddr + u[2]

InitScan == [mm_slot |-> ScanHead, address |-> 0, rmap_list |-> -1,
             scan_round |-> 0, nr_scannable |-> 0, nr_frozen |-> 0,
             scan_mode |-> "NONE", nr_full_scan |-> 0]

\* no get_ksm_page call and no migration run step by step
NoCall == [pc |-> "idle", node |-> 0, flags |-> "NOLOCK", kpfn |-> 0,
           ref |-> FALSE, locked |-> FALSE, ret |-> "none", again |-> FALSE]
NoMigration == [pc |-> "idle", oldpage |-> 0, newpage |-> 0,
                swapcache |-> FALSE, frozen |-> FALSE]

\* the state of the module at load, the run file apart
InitKsmData ==
    /\ rmap = [u \in Units |-> NoItem]
    /\ stable_node = [n \in NodeIds |-> FreeNode]
    /\ root_stable_tree = <<>>
    /\ root_unstable_tree = <<>>
    /\ migrate_nodes = <<>>
    /\ ksm_pages_shared = 0
    /\ ksm_pages_sharing = 0
    /\ ksm_pages_unshared = 0
    /\ ksm_rmap_items = 0
    /\ ksm_stable_node_chains = 0
    /\ ksm_stable_node_dups = 0
    /\ lksm_slot_nr_merged = 0
    /\ lksm_nr_scanned_slot = 0
    /\ mm_slot = [m \in MMs |-> NoSlot]
    /\ mm_list = <<>>
    /\ scan_list = <<>>
    /\ remove_mm_list = <<>>
    /\ vips_list = <<>>
    /\ frozen_task_list = <<>>
    /\ ksm_scan = InitScan
    /\ ksm_crawl_round = 0
    /\ ksm_state = 0
    /\ ksm_one_shot_scanning = LKSM_SCAN_NONE
    /\ bug = "none"
    /\ in_freezer = [m \in MMs |-> FALSE]
    /\ env = 0
    /\ ctl = 0
    /\ crawl_pc = "loop"
    /\ scan_pc = "top"
    /\ need_to_sleep = FALSE
    /\ gkp = NoCall
    /\ passed = [m \in MMs |-> <<>>]
    /\ faulted = {}
    /\ mig = NoMigration

InitKsm == InitKsmData /\ ksm_run = KSM_RUN_STOP

Init ==
    /\ InitKsm
    /\ mm_stage \in {f \in [MMs -> {"live", "unborn"}] : f[1] = "live"}
    /\ \E c \in [Units -> Contents] :
        /\ pte = [u \in Units |-> IF mm_stage[u[1]] = "live" THEN HomePage(u)
                                  ELSE 0]
        /\ page = [p \in Pages |->
                     IF \E u \in Units : mm_stage[u[1]] = "live" /\ HomePage(u) = p
                     THEN [kind |-> "anon", node |-> 0,
                           content |-> c[CHOOSE u \in Units : HomePage(u) = p]]
                     ELSE FreePage]

(***************************************************************************)
(* User-side events.                                                       *)
(***************************************************************************)
Live(m) == mm_stage[m] = "live"
Running == bug = "none"
Event == /\ Running
         /\ env < MaxEnv
         /\ env' = env + 1
Threads == UNCHANGED <<crawl_pc, scan_pc, need_to_sleep>>
NoCtl == UNCHANGED ctl

\* a store to the page at u
do_write(S, u, c) ==
    LET p == S.pte[u]
    IN IF p = 0
       THEN [S EXCEPT !.page[alloc_page(S)] =
                          [kind |-> "anon", node |-> 0, content |-> c],
                      !.pte[u] = alloc_page(S)]
       ELSE IF S.page[p].kind = "anon" /\ \A v \in Units \ {u} : S.pte[v] # p
       THEN [S EXCEPT !.page[p].content = c]
       ELSE do_wp_copy(S, u, c)

Write(u, c) ==
    /\ Event
    /\ Live(u[1])
    /\ pte[u] # 0 => PageKsm(Cur, pte[u]) \/ page[pte[u]].content # c
    /\ Commit(do_write(Cur, u, c))
    /\ UNCHANGED in_freezer
    /\ Threads
    /\ NoCtl

Unmap(u) ==
    /\ Event
    /\ Live(u[1])
    /\ pte[u] # 0
    /\ Commit(zap_pte(Cur, u))
    /\ UNCHANGED in_freezer
    /\ Threads
    /\ NoCtl

\* dup_mmap with ksm_fork
do_fork(S, parent, child) ==
    LET S1 == [S EXCEPT !.mm_stage[child] = "live",
                        !.pte = [u \in Units |->
                                   IF u[1] = child THEN S.pte[<<parent, u[2]>>]
                                   ELSE S.pte[u]]]
    IN IF S.mm_slot[parent].st # "none"
       THEN ksm_enter_alloc_slot(S1, child, FALSE) ELSE S1

Fork(parent, child) ==
    /\ Event
    /\ Live(parent)
    /\ mm_stage[child] = "unborn"
    /\ mm_slot[child].st = "none"
    /\ child \notin Range(scan_list)
    /\ Commit(do_fork(Cur, parent, child))
    /\ UNCHANGED in_freezer
    /\ Threads
    /\ NoCtl

\* mmput: the last user of the mm is gone
MmPut(m) ==
    /\ Event
    /\ Live(m)
    /\ Commit([Cur EXCEPT !.mm_stage[m] = "put"])
    /\ in_freezer' = [in_freezer EXCEPT ![m] = FALSE]
    /\ Threads
    /\ NoCtl

KsmExit(m) ==
    /\ Running
    /\ mm_stage[m] = "put"
    /\ Commit(ksm_exit([Cur EXCEPT !.mm_stage[m] = "exiting"], m))
    /\ UNCHANGED <<in_freezer, env>>
    /\ Threads
    /\ NoCtl

RECURSIVE zap_all(_, _, _)
zap_all(S, m, a) ==
    IF a >= VmEnd THEN S ELSE zap_all(zap_pte(S, <<m, a>>), m, a + 1)

ExitMmap(m) ==
    /\ Running
    /\ mm_stage[m] = "exiting"
    /\ Commit([zap_all(Cur, m, 1) EXCEPT !.mm_stage[m] = "unborn"])
    /\ UNCHANGED <<in_freezer, env>>
    /\ Threads
    /\ NoCtl

TaskFrozen(m) ==
    /\ Event
    /\ Live(m)
    /\ ~in_freezer[m]
    /\ Commit(lksm_task_frozen(Cur, m))
    /\ in_freezer' = [in_freezer EXCEPT ![m] = TRUE]
    /\ Threads
    /\ NoCtl

TaskThawed(m) ==
    /\ Running
    /\ Live(m)
    /\ in_freezer[m]
    /\ Commit(lksm_task_thawed(Cur, m))
    /\ in_freezer' = [in_freezer EXCEPT ![m] = FALSE]
    /\ UNCHANGED env
    /\ Threads
    /\ NoCtl

\* a write to the run file; ksm_thread_mutex keeps it out of ksm_do_scan
RunStore(flags) ==
    /\ Running
    /\ scan_pc # "do_scan"
    /\ ksm_run # flags
    /\ IF ksm_run = KSM_RUN_STOP /\ flags = KSM_RUN_MERGE
       THEN UNCHANGED ctl
       ELSE ctl < MaxCtl /\ ctl' = ctl + 1
    /\ UNCHANGED env
    /\ Commit(run_store(Cur, flags))
    /\ UNCHANGED in_freezer
    /\ Threads

\* ksm_madvise(MADV_MERGEABLE) of an mm that is not registered
Madvise(m) ==
    /\ Event
    /\ Live(m)
    /\ mm_slot[m].st = "none"
    /\ m \notin Range(scan_list)
    /\ Commit(ksm_enter_alloc_slot(Cur, m, FALSE))
    /\ UNCHANGED in_freezer
    /\ Threads
    /\ NoCtl

(***************************************************************************)
(* lksm_crawl_thread.  crawl_pc is "loop" at the head of either loop of    *)
(* the thread, "full" or "partial" inside the round preparation.           *)
(***************************************************************************)
CrawlKinds == {"full", "partial"}

\* the thread may start the preparation of a round of this kind
may_crawl(S, kind) ==
    /\ run_merge(S)
    /\ S.ksm_state = 0
    /\ S.ksm_crawl_round < MaxRound
    /\ run_oneshot(S) => S.ksm_crawl_round < initial_round
    /\ kind = "partial" =>
         /\ S.ksm_crawl_round >= initial_round
         /\ S.frozen_task_list # <<>> \/ S.scan_list # <<>>

\* the preparation and the wake-up that follows it
crawl(S, kind, changed) ==
    With([r \in {IF kind = "full" THEN lksm_prepare_full_scan(S)
                 ELSE lksm_prepare_partial_scan(S, changed)} |->
    LET wake == IF S.ksm_crawl_round < initial_round THEN r.ret # 0
                ELSE r.ret > 0
    IN IF wake THEN lksm_wake_up_scan_thread(r.S) ELSE r.S])

Crawl(kind, changed) ==
    /\ Running
    /\ crawl_pc = "loop"
    /\ may_crawl(Cur, kind)
    /\ kind = "full" => changed = {}
    /\ Commit(crawl(Cur, kind, changed))
    /\ UNCHANGED <<in_freezer, env, ctl, crawl_pc, scan_pc, need_to_sleep>>

CrawlBegin(kind) ==
    /\ Running
    /\ crawl_pc = "loop"
    /\ may_crawl(Cur, kind)
    /\ crawl_pc' = kind
    /\ Commit(Cur)
    /\ UNCHANGED <<in_freezer, env, ctl, scan_pc, need_to_sleep>>

CrawlEnd(changed) ==
    /\ Running
    /\ crawl_pc \in CrawlKinds
    /\ crawl_pc = "full" => changed = {}
    /\ Commit(crawl(Cur, crawl_pc, changed))
    /\ crawl_pc' = "loop"
    /\ UNCHANGED <<in_freezer, env, ctl, scan_pc, need_to_sleep>>

(***************************************************************************)
(* lksm_scan_thread, with ksm_thread_pages_to_scan = 1.  scan_pc is "top"  *)
(* at the head of the loop, "do_scan" inside ksm_do_scan, "decide" after   *)
(* it, "wait" in the wait for the scanning state.                          *)
(***************************************************************************)
\* the branches after ksm_do_scan: [S, pc]
scan_decide(S, need, trap) ==
    IF need /\ ~ksmd_should_run(S) THEN [S |-> wrapup(S, trap), pc |-> "wait"]
    ELSE IF ksmd_should_run(S) THEN [S |-> S, pc |-> "top"]
    ELSE IF S.ksm_scan.scan_round > 0
    THEN [S |-> wrapup(S, trap), pc |-> "wait"]
    ELSE [S |-> S, pc |-> "wait"]

\* a fault takes one of the events of the bound
Fault(fault) ==
    IF fault = "none" THEN UNCHANGED env
    ELSE env < MaxEnv /\ env' = env + 1

\* one pass of the loop of the thread
ScanIter(prune, fault, trap) ==
    /\ Running
    /\ scan_pc = "top"
    /\ Fault(fault)
    /\ ~ksmd_should_run(Cur) => fault = "none" /\ ~prune
    /\ \E d \in {IF ksmd_should_run(Cur) THEN ksm_do_scan(Cur, prune, fault)
                  ELSE [S |-> Cur, need_to_sleep |-> FALSE]} :
         \E r \in {scan_decide(d.S, d.need_to_sleep, trap)} :
            /\ Commit(r.S)
            /\ scan_pc' = r.pc
    /\ UNCHANGED <<in_freezer, ctl, crawl_pc, need_to_sleep>>

ScanEnter ==
    /\ Running
    /\ scan_pc = "top"
    /\ scan_pc' = IF ksmd_should_run(Cur) THEN "do_scan" ELSE "decide"
    /\ Commit(Cur)
    /\ UNCHANGED <<in_freezer, env, ctl, crawl_pc, need_to_sleep>>

ScanDo(prune, fault) ==
    /\ Running
    /\ scan_pc = "do_scan"
    /\ Fault(fault)
    /\ \E d \in {ksm_do_scan(Cur, prune, fault)} :
          /\ Commit(d.S)
          /\ need_to_sleep' = d.need_to_sleep
    /\ scan_pc' = "decide"
    /\ UNCHANGED <<in_freezer, ctl, crawl_pc>>

ScanDecide(trap) ==
    /\ Running
    /\ scan_pc = "decide"
    /\ \E r \in {scan_decide(Cur, need_to_sleep, trap)} :
          /\ Commit(r.S)
          /\ scan_pc' = r.pc
    /\ need_to_sleep' = FALSE
    /\ UNCHANGED <<in_freezer, env, ctl, crawl_pc>>

\* the wait for the scanning state is over
ScanWake ==
    /\ Running
    /\ scan_pc = "wait"
    /\ ksm_state = 1
    /\ ksmd_should_run(Cur)
    /\ scan_pc' = "top"
    /\ Commit(Cur)
    /\ UNCHANGED <<in_freezer, env, ctl, crawl_pc, need_to_sleep>>

(***************************************************************************)
(* The specification of the merging engine: the threads take whole passes. *)
(***************************************************************************)
Next ==
    \/ \E u \in Units, c \in Contents : Write(u, c)
    \/ \E u \in Units : Unmap(u)
    \/ \E m \in MMs, n \in MMs : Fork(m, n)
    \/ \E m \in MMs : MmPut(m)
    \/ \E m \in MMs : KsmExit(m)
    \/ \E m \in MMs : ExitMmap(m)
    \/ \E m \in MMs : TaskFrozen(m)
    \/ \E m \in MMs : TaskThawed(m)
    \/ \E m \in MMs : Madvise(m)
    \/ \E f \in {KSM_RUN_STOP, KSM_RUN_MERGE, KSM_RUN_UNMERGE} : RunStore(f)
    \/ \E k \in CrawlKinds, ch \in SUBSET MMs : Crawl(k, ch)
    \/ \E pr \in BOOLEAN, f \in Faults, t \in BOOLEAN : ScanIter(pr, f, t)
    \/ ScanWake

Spec == Init /\ [][Next]_vars

(***************************************************************************)
(* The specification of the two threads: each thread takes one step at a   *)
(* time (the crawler enters and leaves the round preparation, the scanner  *)
(* enters and leaves ksm_do_scan), so that the steps of the threads and    *)
(* the registrations interleave.  Both threads are scheduled fairly.       *)
(***************************************************************************)
SchedInit ==
    /\ InitKsm
    /\ mm_stage \in {f \in [MMs -> {"live", "unborn"}] : f[1] = "live"}
    /\ pte = [u \in Units |-> IF mm_stage[u[1]] = "live" THEN HomePage(u) ELSE 0]
    /\ page = [p \in Pages |->
                 IF \E u \in Units : mm_stage[u[1]] = "live" /\ HomePage(u) = p
                 THEN [kind |-> "anon", node |-> 0, content |-> 1]
                 ELSE FreePage]

CrawlerStep ==
    \/ \E k \in CrawlKinds : CrawlBegin(k)
    \/ \E ch \in SUBSET MMs : CrawlEnd(ch)

ScannerStep ==
    \/ ScanEnter
    \/ \E pr \in BOOLEAN, f \in Faults : ScanDo(pr, f)
    \/ \E t \in BOOLEAN : ScanDecide(t)
    \/ ScanWake

SchedNext ==
    \/ \E m \in MMs : Madvise(m)
    \/ \E m \in MMs : TaskFrozen(m)
    \/ \E m \in MMs : TaskThawed(m)
    \/ \E m \in MMs : MmPut(m)
    \/ \E m \in MMs : KsmExit(m)
    \/ \E m \in MMs : ExitMmap(m)
    \/ \E f \in {KSM_RUN_STOP, KSM_RUN_MERGE, KSM_RUN_UNMERGE} : RunStore(f)
    \/ CrawlerStep
    \/ ScannerStep

SchedSpec ==
    /\ SchedInit
    /\ [][SchedNext]_vars
    /\ WF_vars(CrawlerStep)
    /\ WF_vars(ScannerStep)

(***************************************************************************)
(* Properties of the merging engine.                                       *)
(***************************************************************************)
\* the stable nodes that hold records: linked in the tree, under a chain or
\* on migrate_nodes, the chains themselves apart
HoldsRecords(n) ==
    /\ stable_node[n].head \in {"rb", "dup", "migrate"}
    /\ ~is_stable_node_chain(Cur, n)

\* the rmap_item r is attached to the stable node n
Attached(r, n) == r.present /\ r.flag = "stable" /\ r.head = n

\* C1, as stated: at every quiescent point every regular or dup stable node
\* has rmap_hlist_len <= ksm_max_page_sharing, the evaluations of forked ksm
\* pages included.
C1_FanOutBound ==
    \A n \in NodeIds :
        HoldsRecords(n) => stable_node[n].rmap_hlist_len <= ksm_max_page_sharing

\* C1, amended: a step takes the rmap_hlist_len of a stable node above
\* ksm_max_page_sharing only by attaching records of units that mapped the
\* ksm page of that very node before the step (further mappings of a merged
\* page, as fork makes them); every other attach leaves the length within
\* the limit.
C1_FanOutBoundButFork ==
    [][\A n \in NodeIds :
         (/\ stable_node'[n].head \in {"rb", "dup", "migrate"}
          /\ stable_node'[n].rmap_hlist_len > ksm_max_page_sharing
          /\ stable_node'[n].rmap_hlist_len > stable_node[n].rmap_hlist_len)
         => /\ PageIsKey(Cur, n)
            /\ \A u \in Units :
                 Attached(rmap'[u], n) /\ ~Attached(rmap[u], n)
                     => pte[u] = stable_node[n].kpfn]_vars

\* C1, the case: a stable node holds more records than the limit
C1_OverLimitNode ==
    \E n \in NodeIds :
        HoldsRecords(n) /\ stable_node[n].rmap_hlist_len > ksm_max_page_sharing

\* the dups of a tree node (the node itself when it is no chain) whose ksm
\* page is still there
LiveDups(n) ==
    IF is_stable_node_chain(Cur, n)
    THEN {d \in Range(stable_node[n].hlist) : PageIsKey(Cur, d)}
    ELSE IF PageIsKey(Cur, n) THEN {n} ELSE {}

NodeContent(d) == page[stable_node[d].kpfn].content

\* C2: any two distinct nodes linked in the stable tree (a chain counting as
\* one node) have different content, and all dups under one chain have the
\* same content: stable_tree_insert of a content the tree holds places the
\* new node under a chain at that position.
C2_NoDuplicateContent ==
    /\ \A i, j \in 1..Len(root_stable_tree) :
         i < j => \A a \in LiveDups(root_stable_tree[i]),
                     b \in LiveDups(root_stable_tree[j]) :
                        NodeContent(a) # NodeContent(b)
    /\ \A i \in 1..Len(root_stable_tree) :
         \A a, b \in LiveDups(root_stable_tree[i]) :
            NodeContent(a) = NodeContent(b)

\* C2, the case: a chain in the tree holds two dups of one content
C2_ChainOfTwo ==
    \E i \in 1..Len(root_stable_tree) :
        /\ is_stable_node_chain(Cur, root_stable_tree[i])
        /\ Cardinality(LiveDups(root_stable_tree[i])) >= 2

\* the passes of the scanning thread from S on until ksm_do_scan finds
\* nothing more to scan, no other thread running; at most n passes
RECURSIVE scan_passes(_, _)
scan_passes(S, n) ==
    IF n = 0 \/ ~ksmd_should_run(S) \/ S.bug # "none" THEN S
    ELSE With([d \in {ksm_do_scan(S, FALSE, "none")} |->
            IF d.need_to_sleep THEN d.S ELSE scan_passes(d.S, n - 1)])

\* one whole round of the scanner
scan_round_of(S) == scan_passes(S, Cardinality(Units) + NumMM + 1)

\* the scanner is about to start the round the crawler prepared
AtRoundStart ==
    /\ ksm_scan.mm_slot = ScanHead
    /\ ksm_scan.scan_round < ksm_crawl_round
    /\ ksmd_should_run(Cur)
    /\ bug = "none"

\* u and v are units of two registered owners on the work list, resident,
\* of one content that no other resident unit has, their records not created
\* yet, and the trees are empty
ScenarioA(u, v) ==
    /\ u[1] < v[1]
    /\ \A w \in {u, v} :
         /\ mm_stage[w[1]] = "live"
         /\ w[1] \in Range(scan_list)
         /\ "SCANNED" \notin mm_slot[w[1]].state
         /\ pte[w] # 0
         /\ ~rmap[w].present
    /\ pte[u] # pte[v]
    /\ page[pte[u]].content = page[pte[v]].content
    /\ \A w \in Units \ {u, v} :
         pte[w] # 0 => page[pte[w]].content # page[pte[u]].content
    /\ root_stable_tree = <<>>
    /\ root_unstable_tree = <<>>
    /\ migrate_nodes = <<>>

\* in T both records are attached to one stable node of length 2, the only
\* stable node of that content
MergedPair(T, u, v) ==
    /\ T.rmap[u].present /\ T.rmap[u].flag = "stable"
    /\ T.rmap[v].present /\ T.rmap[v].flag = "stable"
    /\ T.rmap[u].head = T.rmap[v].head
    /\ T.stable_node[T.rmap[u].head].rmap_hlist_len = 2
    /\ T.root_stable_tree # <<>>
    /\ \A n \in NodeIds :
         (/\ T.stable_node[n].head # "free"
          /\ ~is_stable_node_chain(T, n)
          /\ PageIsKey(T, n)
          /\ T.page[T.stable_node[n].kpfn].content = T.page[T.pte[u]].content)
         => n = T.rmap[u].head

\* C3, as stated: from two owners on the work list with one resident unit
\* of identical content each, fresh records and empty trees, one scan round
\* attaches both records to one stable node of length 2, the only stable
\* node of that content.
C3_ScenarioA ==
    AtRoundStart =>
        \A u, v \in Units :
            ScenarioA(u, v) => MergedPair(scan_round_of(Cur), u, v)

\* C3, amended: the round merges the two units when it is past the initial
\* rounds (ksm_crawl_round >= initial_round); in an initial round the first
\* evaluation of a fresh record only records the checksum.
C3_ScenarioAPastFilter ==
    AtRoundStart =>
        \A u, v \in Units :
            ScenarioA(u, v) /\ ksm_crawl_round >= initial_round
                => MergedPair(scan_round_of(Cur), u, v)

\* C3, the case: the scenario at the start of a round past the filter
C3_RoundOfScenarioA ==
    /\ AtRoundStart
    /\ \E u, v \in Units :
         /\ ScenarioA(u, v) /\ ksm_crawl_round >= initial_round
         /\ MergedPair(scan_round_of(Cur), u, v)

\* the regular nodes of the stable tree of S that are at the limit and hold
\* the content of the page p
FullNodes(S, p) ==
    {n \in NodeIds : /\ S.stable_node[n].head = "rb"
                     /\ S.stable_node[n].rmap_hlist_len = ksm_max_page_sharing
                     /\ PageIsKey(S, n)
                     /\ S.page[S.stable_node[n].kpfn].content = S.page[p].content}

\* the place of the node x in the stable tree of S
TreePos(S, x) == IndexOf(S.root_stable_tree, x)

\* the tree of T is the tree of S with the chain c in the place of n, the
\* nodes that went stale apart
SameOrder(S, T, n, c) ==
    /\ TreePos(S, n) > 0
    /\ TreePos(T, c) > 0
    /\ \A a \in Range(T.root_stable_tree) \ {c} :
         /\ TreePos(S, a) > 0
         /\ (TreePos(T, a) < TreePos(T, c)) = (TreePos(S, a) < TreePos(S, n))
         /\ \A b \in Range(T.root_stable_tree) \ {c} :
              (TreePos(T, a) < TreePos(T, b)) = (TreePos(S, a) < TreePos(S, b))

\* in T the full node n of S is under a new chain with the new node d and
\* nothing else, and as long as it was
ChainOfTwoAt(S, T, n, d) ==
    /\ d # n
    /\ S.stable_node[d].head = "free"
    /\ T.stable_node[d].head = "dup"
    /\ T.stable_node[n].head = "dup"
    /\ T.stable_node[n].rmap_hlist_len = ksm_max_page_sharing
    /\ \E c \in NodeIds :
         /\ S.stable_node[c].head = "free"
         /\ is_stable_node_chain(T, c)
         /\ Len(T.stable_node[c].hlist) = 2
         /\ Range(T.stable_node[c].hlist) = {n, d}
         /\ SameOrder(S, T, n, c)

\* the evaluation of the item r.item in r.S takes a unit of the content of a
\* full regular node, not attached to the node, to a stable node
MatchedAtFull(r, T, n) ==
    /\ r.item # NoUnit
    /\ n \in FullNodes(r.S, r.page)
    /\ ~Attached(r.S.rmap[r.item], n)
    /\ T.bug = "none"
    /\ Attached(T.rmap[r.item], T.rmap[r.item].head)
    /\ T.rmap[r.item].head # r.S.rmap[r.item].head

\* C4, as stated: when cmp_and_merge_page matches a unit whose content is
\* the content of a regular stable node at the limit K, the node is
\* afterwards under a chain at its place in the tree, the chain holds
\* exactly the node and one new node, the order of the tree is as before
\* and the rmap_hlist_len of the node is still K.
C4_ScenarioB ==
    ksmd_should_run(Cur) /\ bug = "none" =>
        \A pr \in BOOLEAN :
            With([r \in {scan_get_next_rmap_item(Cur, "none")} |->
            With([T \in {IF r.item = NoUnit THEN r.S
                         ELSE cmp_and_merge_page(r.S, r.item, r.page, pr,
                                                 "none")} |->
               \A n \in NodeIds :
                   MatchedAtFull(r, T, n)
                       => ChainOfTwoAt(r.S, T, n, T.rmap[r.item].head)])])

\* C4, amended: the same of a unit that holds a page of its own, a further
\* copy of the content (its match is found in the unstable tree,
\* stable_tree_search passing the full node over); a unit that maps the ksm
\* page of the full node itself is attached to that node and no chain is
\* made.
C4_ScenarioBOwnCopy ==
    ksmd_should_run(Cur) /\ bug = "none" =>
        \A pr \in BOOLEAN :
            With([r \in {scan_get_next_rmap_item(Cur, "none")} |->
            With([T \in {IF r.item = NoUnit THEN r.S
                         ELSE cmp_and_merge_page(r.S, r.item, r.page, pr,
                                                 "none")} |->
               \A n \in NodeIds :
                   MatchedAtFull(r, T, n) /\ r.page # r.S.stable_node[n].kpfn
                       => ChainOfTwoAt(r.S, T, n, T.rmap[r.item].head)])])

\* C4, the case: the next evaluation matches a unit at a full regular node
C4_MatchAtLimit ==
    /\ ksmd_should_run(Cur) /\ bug = "none"
    /\ With([r \in {scan_get_next_rmap_item(Cur, "none")} |->
       With([T \in {IF r.item = NoUnit THEN r.S
                    ELSE cmp_and_merge_page(r.S, r.item, r.page, FALSE,
                                            "none")} |->
          \E n \in NodeIds :
              /\ MatchedAtFull(r, T, n)
              /\ r.page # r.S.stable_node[n].kpfn
              /\ ChainOfTwoAt(r.S, T, n, T.rmap[r.item].head)])])

\* the node n of S is linked: in the stable tree or under a chain of it
Linked(S, n) == S.stable_node[n].head \in {"rb", "dup"}

\* the owner m holds one record attached to the linked stable node n, the
\* record of u
HoldsOne(m, u, n) ==
    /\ bug = "none"
    /\ u[1] = m
    /\ Linked(Cur, n)
    /\ \A w \in Units : (w[1] = m /\ Attached(rmap[w], n)) <=> w = u

\* the teardown of the records of the owner m
Teardown(m) == remove_trailing_rmap_items(Cur, m, 1)

\* C5, as stated: the teardown of an owner that holds one record attached
\* to a stable node takes the rmap_hlist_len of the node down by exactly
\* one, and a node whose length reaches zero is out of the stable tree when
\* the teardown is over (freed, or on the list of nodes to place).
C5_ScenarioC ==
    \A m \in MMs, u \in Units, n \in NodeIds :
        HoldsOne(m, u, n) =>
            With([T \in {Teardown(m)} |->
               \/ T.stable_node[n].head = "free"
               \/ /\ T.stable_node[n].rmap_hlist_len
                       = stable_node[n].rmap_hlist_len - 1
                  /\ T.stable_node[n].rmap_hlist_len = 0 => ~Linked(T, n)])

\* C5, amended: while the ksm page of the node is in place the teardown
\* takes the length down by exactly one and the node stays linked where it
\* was, at length zero too; when the page is gone the node is freed at once
\* (a node of length zero goes out of the tree when a later get_ksm_page
\* finds its page gone).
C5_ScenarioCKeepsNode ==
    \A m \in MMs, u \in Units, n \in NodeIds :
        HoldsOne(m, u, n) =>
            With([T \in {Teardown(m)} |->
               IF PageIsKey(Cur, n)
               THEN /\ T.stable_node[n].rmap_hlist_len
                         = stable_node[n].rmap_hlist_len - 1
                    /\ T.stable_node[n].head = stable_node[n].head
                    /\ stable_node[n].head = "rb"
                         => n \in Range(T.root_stable_tree)
                    /\ ~T.rmap[u].present
               ELSE T.stable_node[n].head = "free"])

\* C5, the case: an owner is gone, its records torn down, and a stable node
\* of length zero is still in the tree
C5_EmptyNodeInTree ==
    /\ mm_stage[1] # "live" /\ mm_slot[1].st = "none"
    /\ \E n \in NodeIds :
         /\ Linked(Cur, n)
         /\ stable_node[n].rmap_hlist_len = 0

\* the evaluation of r.item that leads from r.S to T went the way of the
\* unstable tree: the item is in the unstable tree, or a stable node was
\* made of a match in it
UnstablePath(r, T) ==
    \/ r.item \in Range(T.root_unstable_tree)
    \/ T.rmap[r.item].flag = "unstable"
    \/ \E n \in NodeIds : /\ r.S.stable_node[n].head = "free"
                          /\ T.stable_node[n].head # "free"

\* the checksum of the page of r.item is not the one in its record
ChecksumChanged(r) ==
    r.S.rmap[r.item].oldchecksum # calc_checksum(r.S.page[r.page].content)

StoresEmpty(S) ==
    /\ S.root_stable_tree = <<>>
    /\ S.migrate_nodes = <<>>
    /\ S.root_unstable_tree = <<>>
    /\ S.ksm_pages_shared = 0
    /\ S.ksm_pages_sharing = 0
    /\ S.ksm_pages_unshared = 0
    /\ S.ksm_stable_node_chains = 0
    /\ S.ksm_stable_node_dups = 0

\* C7: after the write of KSM_RUN_UNMERGE to run has returned with success
\* the stable tree, migrate_nodes and the unstable tree are empty and
\* pages_shared, pages_sharing, pages_unshared, stable_node_chains and
\* stable_node_dups are 0, and a second write of KSM_RUN_UNMERGE leaves them
\* so.
C7_IdempotentUnmerge ==
    bug = "none" =>
        With([T \in {run_store(Cur, KSM_RUN_UNMERGE)} |->
           T.bug = "none" =>
               /\ StoresEmpty(T)
               /\ StoresEmpty(run_store(T, KSM_RUN_UNMERGE))])

\* the step starts a round: the cursor takes over the round of the crawler
RoundStarts == ksm_scan'.scan_round # ksm_scan.scan_round

\* the step takes records out of the unstable tree
TreeShrinks == Len(root_unstable_tree') < Len(root_unstable_tree)

\* the step merges a record of the unstable tree: the record is stable
MergesTreeItem ==
    \E u \in Range(root_unstable_tree) :
        rmap'[u].present /\ rmap'[u].flag = "stable"

\* C8, as stated: the unstable tree is empty right after the scanner has
\* taken over a round, and in a round the number of records in the unstable
\* tree goes down only when a record is merged.
C8_RoundIsolation ==
    /\ [](AtRoundStart =>
            \A f \in Faults :
                scan_get_next_rmap_item(Cur, f).S.root_unstable_tree = <<>>)
    /\ [][TreeShrinks => RoundStarts \/ MergesTreeItem]_vars

\* the record of u leaves the unstable tree in the step
LeavesTree(u) ==
    u \in Range(root_unstable_tree) /\ u \notin Range(root_unstable_tree')

\* the record the cursor is at after the step: the record evaluated last
Evaluated == <<ksm_scan'.mm_slot, ksm_scan'.rmap_list>>

\* C8, amended: the unstable tree is empty right after the scanner has
\* taken over a round; in a round a record leaves the unstable tree only
\* when it is merged (it is stable), when it is torn down (its rmap_item is
\* freed: exit of the owner, unmapped address, unmerge), when it is
\* evaluated again, or when the merge that took it out is undone after a
\* primitive failed.
C8_RoundIsolationButTeardown ==
    /\ [](AtRoundStart =>
            \A f \in Faults :
                scan_get_next_rmap_item(Cur, f).S.root_unstable_tree = <<>>)
    /\ [][\A u \in Units :
            LeavesTree(u) =>
                \/ RoundStarts
                \/ rmap'[u].present /\ rmap'[u].flag = "stable"
                \/ ~rmap'[u].present
                \/ u = Evaluated
                \/ rmap'[u].flag = "none" /\ env' > env]_vars

\* C8, the case: a round starts while the unstable tree holds a record of
\* the round before, the record of an owner that is exiting
C8_RoundStartWithRecords ==
    /\ AtRoundStart
    /\ \E u \in Range(root_unstable_tree) : mm_stage[u[1]] # "live"

\* C9: in every interleaving of the two threads with the registrations
\* (ksm_madvise, lksm_task_frozen) the crawler is never inside
\* lksm_prepare_full_scan or lksm_prepare_partial_scan while the scanner is
\* inside ksm_do_scan.
C9_PhaseExclusion ==
    ~(crawl_pc \in CrawlKinds /\ scan_pc = "do_scan")

\* C10: whenever ksm_state is 1 (the crawler has set the scanning state and
\* woken the scanner) and run is merge, the scanner eventually wraps the
\* round up and clears ksm_state, the threads being scheduled fairly, even
\* when the owners on the work list exit before they are scanned.
C10_RoundCompletes ==
    (ksm_state = 1 /\ run_merge(Cur) /\ bug = "none")
        ~> (ksm_state = 0 \/ ~run_merge(Cur) \/ bug # "none")

(***************************************************************************)
(* Unmerge against the round preparation.                                  *)
(***************************************************************************)
\* the preparation the crawler is inside of
prepare_scan(S, kind, changed) ==
    IF kind = "full" THEN lksm_prepare_full_scan(S)
    ELSE lksm_prepare_partial_scan(S, changed)

\* the preparation reports no target and leaves the round, the mode and
\* the scanning state as they are
AbortsPreparation(kind, changed) ==
    With([r \in {prepare_scan(Cur, kind, changed)} |->
        /\ r.ret = 0
        /\ r.S.ksm_crawl_round = ksm_crawl_round
        /\ r.S.ksm_scan.scan_mode = ksm_scan.scan_mode
        /\ crawl(Cur, kind, changed).ksm_state = ksm_state])

\* the walk over the processes, or the walk over the rank tree of a
\* partial round, has an owner at which ksm_run is tested
OwnerBoundary(kind) ==
    \/ \E m \in MMs : mm_stage[m] = "live"
    \/ kind = "partial" /\ vips_list # <<>>

UnmergeAbortsAtOwner ==
    crawl_pc \in CrawlKinds /\ run_unmerge(Cur) /\ OwnerBoundary(crawl_pc) =>
        \A ch \in SUBSET MMs : AbortsPreparation(crawl_pc, ch)

(***************************************************************************)
(* The lifecycle hooks against the slot at the scan cursor.                *)
(***************************************************************************)
\* what the lists, the registry and the rank tree hold of slot c, and its
\* state bits
SlotView(S, c) ==
    [slot |-> S.mm_slot[c],
     mm_list |-> c \in Range(S.mm_list),
     scan_list |-> c \in Range(S.scan_list),
     vips_list |-> c \in Range(S.vips_list),
     remove_mm_list |-> c \in Range(S.remove_mm_list)]

\* the states after one of the hooks is called for mm m
HookResults(S, m) ==
    {lksm_task_frozen(S, m), lksm_task_thawed(S, m), ksm_exit(S, m),
     lksm_remove_candidate(S, m, TRUE), lksm_remove_candidate(S, m, FALSE)}

\* C12: lksm_task_frozen, lksm_task_thawed, __ksm_exit and
\* lksm_remove_candidate, called for any mm while a round is in progress,
\* leave the slot at the scan cursor on its lists, in the registry and in
\* the rank tree, do not free it and do not change its state bits.
C12_HooksSpareCursor ==
    ksm_scan.mm_slot \in MMs =>
        \A m \in MMs : \A T \in HookResults(Cur, m) :
            SlotView(T, ksm_scan.mm_slot) = SlotView(Cur, ksm_scan.mm_slot)

\* the owner of the slot at the cursor has exited while the slot is
\* registered with records, and the other mm is registered too
C12_ExitAtCursor ==
    /\ ksm_scan.mm_slot \in MMs
    /\ mm_slot[ksm_scan.mm_slot].st = "hashed"
    /\ mm_stage[ksm_scan.mm_slot] = "put"
    /\ HasItems(Cur, ksm_scan.mm_slot)
    /\ \E m \in MMs : m # ksm_scan.mm_slot /\ mm_slot[m].st = "hashed"

(***************************************************************************)
(* Deferred removal of the slots that own records.                         *)
(***************************************************************************)
\* the step frees slot m while m has records linked
FreesOwner(m) ==
    /\ mm_slot[m].st # "none"
    /\ HasItems(Cur, m)
    /\ mm_slot'[m].st = "none"

\* the step is a write of KSM_RUN_UNMERGE to the run file
UnmergeStep == ksm_run # KSM_RUN_UNMERGE /\ ksm_run' = KSM_RUN_UNMERGE

\* the step is a pass of the scanner that ends in the wrap-up, where
\* lksm_flush_removed_mm_list has emptied remove_mm_list and detached the
\* records of m
FlushedAtWrapup(m) ==
    /\ scan_pc' = "wait"
    /\ remove_mm_list' = <<>>
    /\ \A a \in Addrs : ~rmap'[<<m, a>>].present

\* every slot on remove_mm_list is there once, and is not freed
RemovedOnce ==
    /\ \A i, j \in 1..Len(remove_mm_list) :
           remove_mm_list[i] = remove_mm_list[j] => i = j
    /\ \A i \in 1..Len(remove_mm_list) :
           mm_slot[remove_mm_list[i]].st = "removed"

\* C13: a slot that owns a record is freed, by __ksm_exit or by the
\* scanner, only in lksm_flush_removed_mm_list at the end of a round, when
\* the work list is empty, with all its records detached; a slot is on
\* remove_mm_list once and is not freed before the flush.
C13_DeferredRemoval ==
    /\ []RemovedOnce
    /\ [][\A m \in MMs : FreesOwner(m) /\ ~UnmergeStep =>
              FlushedAtWrapup(m) /\ scan_list' = <<>>]_vars

\* C13, amended: the flush runs in the wrap-up of the scanner, which is
\* reached at the end of a round and also when merging is stopped in the
\* middle of a round, with slots left on the work list.
C13_DeferredRemovalAtWrapup ==
    /\ []RemovedOnce
    /\ [][\A m \in MMs : FreesOwner(m) /\ ~UnmergeStep =>
              FlushedAtWrapup(m) /\ ~ksmd_should_run(Cur)']_vars

\* a slot with records waits on remove_mm_list while the round goes on
C13_OwnerOnRemoveList ==
    \E m \in MMs :
        /\ m \in Range(remove_mm_list)
        /\ HasItems(Cur, m)
        /\ scan_list # <<>>
        /\ ksm_state = 1

(***************************************************************************)
(* ksm_thread_mutex.  lksm_scan_thread holds it from mutex_lock to         *)
(* mutex_unlock around ksm_do_scan, run_store for the whole of its write.  *)
(***************************************************************************)
\* the merge stores: the trees, the records with their lists, the counters
MergeStores ==
    <<rmap, stable_node, root_stable_tree, root_unstable_tree, migrate_nodes,
      ksm_pages_shared, ksm_pages_sharing, ksm_pages_unshared, ksm_rmap_items,
      ksm_stable_node_chains, ksm_stable_node_dups>>

\* the step is a write to the run file
RunStoreStep == ctl' # ctl \/ ksm_run' # ksm_run

\* the step runs with ksm_thread_mutex held: the scanner inside
\* ksm_do_scan, or run_store
MutexHeld == scan_pc = "do_scan" \/ RunStoreStep

\* C14: every mutation of the stable tree, the unstable tree, the rmap
\* lists and the counters by cmp_and_merge_page,
\* unmerge_and_remove_all_rmap_items, remove_all_stable_nodes and
\* remove_trailing_rmap_items happens while ksm_thread_mutex is held.
C14_MutationsUnderMutex ==
    [][MergeStores' # MergeStores => MutexHeld]_vars

\* what does hold: outside the mutex the stores change only in the flush of
\* remove_mm_list, which lksm_scan_thread calls after mutex_unlock
MutationsUnderMutexOrFlush ==
    [][MergeStores' # MergeStores =>
          MutexHeld \/ (scan_pc = "decide" /\ remove_mm_list # <<>>)]_vars

(***************************************************************************)
(* The result of the unmerge verb.                                         *)
(***************************************************************************)
\* a write of KSM_RUN_UNMERGE in this state leaves a stable node whose page
\* is still mapped
StillBusy ==
    /\ ksm_run # KSM_RUN_UNMERGE
    /\ unmerge_err([Cur EXCEPT !.ksm_run = KSM_RUN_UNMERGE]).busy

\* C15: when a stable node cannot be removed during unmerge because its
\* page is still mapped, the unmerge verb returns an error, not success.
C15_UnmergeReportsBusy ==
    StillBusy => run_store_ret(Cur, KSM_RUN_UNMERGE) # 0

\* C15, amended: the result of remove_all_stable_nodes is dropped; the
\* verb returns success, run stays KSM_RUN_UNMERGE and the busy node stays
\* in the stable tree.
C15_UnmergeIgnoresBusy ==
    StillBusy =>
        /\ run_store_ret(Cur, KSM_RUN_UNMERGE) = 0
        /\ With([T \in {run_store(Cur, KSM_RUN_UNMERGE)} |->
               /\ T.ksm_run = KSM_RUN_UNMERGE
               /\ T.root_stable_tree # <<>>])

\* an unmerge that meets a busy stable node
C15_BusyNode == StillBusy /\ bug = "none"

(***************************************************************************)
(* The failure of alloc_rmap_item in get_next_rmap_item.                   *)
(***************************************************************************)
\* the next pass of the scanner asks for the record of unit <<m, a>> of the
\* slot at the cursor, and the unit has none: alloc_rmap_item is called
NeedsAlloc(m, a) ==
    /\ ksmd_should_run(Cur) /\ bug = "none"
    /\ ksm_scan.mm_slot = m
    /\ mm_slot[m].st = "hashed"
    /\ ~ksm_test_exit(Cur, m)
    /\ a >= ksm_scan.address /\ a >= 1
    /\ pte[<<m, a>>] # 0
    /\ \A b \in Addrs : b >= ksm_scan.address /\ b < a => pte[<<m, b>>] = 0
    /\ ~rmap[<<m, a>>].present

\* C16: when alloc_rmap_item fails in get_next_rmap_item only that unit is
\* skipped: the records of the owner at higher addresses stay, the owner is
\* not marked scanned and not dropped from the registry or the work list,
\* and the cursor stays at the unit, which is tried again on a later pass.
C16_AllocFailureSkipsUnit ==
    \A m \in MMs, a \in Addrs :
        NeedsAlloc(m, a) =>
            With([r \in {scan_get_next_rmap_item(Cur, "rmap_alloc")} |->
                /\ \A b \in Addrs :
                      b > a /\ rmap[<<m, b>>].present =>
                          r.S.rmap[<<m, b>>].present
                /\ r.S.mm_slot[m] = mm_slot[m]
                /\ m \in Range(r.S.scan_list)
                /\ r.S.ksm_scan.mm_slot = m
                /\ r.S.ksm_scan.address = a])

\* what the code does: the failure ends the scan of the owner, as the end
\* of its address space does; its records from the cursor on are freed and
\* the slot leaves the work list, marked scanned
AllocFailureEndsOwner ==
    \A m \in MMs, a \in Addrs :
        NeedsAlloc(m, a) =>
            With([r \in {scan_get_next_rmap_item(Cur, "rmap_alloc")} |->
                /\ \A b \in Addrs : b >= a => ~r.S.rmap[<<m, b>>].present
                /\ "SCANNED" \in r.S.mm_slot[m].state
                /\ m \notin Range(r.S.scan_list)
                /\ r.S.ksm_scan.mm_slot # m])

(***************************************************************************)
(* The stable tree is searched before the unstable tree.                   *)
(***************************************************************************)
\* the nodes of the stable tree with the content of page p, a live KSM page
\* and fewer than ksm_max_page_sharing records
HeadroomNodes(S, p) ==
    {n \in NodeIds : /\ Linked(S, n)
                     /\ ~is_stable_node_chain(S, n)
                     /\ PageIsKey(S, n)
                     /\ S.stable_node[n].rmap_hlist_len < ksm_max_page_sharing
                     /\ S.page[S.stable_node[n].kpfn].content = S.page[p].content}

\* C17: a unit whose content equals a stable node with fan-out headroom is
\* settled by the search of the stable tree: in that evaluation it is not
\* inserted into the unstable tree, not paired with a record of the
\* unstable tree, and no stable node is created.
C17_StableBeforeUnstable ==
    ksmd_should_run(Cur) /\ bug = "none" =>
        \A pr \in BOOLEAN, f \in Faults :
            With([r \in {scan_get_next_rmap_item(Cur, f)} |->
            With([T \in {IF r.item = NoUnit THEN r.S
                         ELSE cmp_and_merge_page(r.S, r.item, r.page, pr, f)} |->
               (r.item # NoUnit /\ HeadroomNodes(r.S, r.page) # {})
               => ~UnstablePath(r, T)])])

\* the nodes among them that hold at least one record
SharedHeadroomNodes(S, p) ==
    {n \in HeadroomNodes(S, p) : S.stable_node[n].rmap_hlist_len >= 1}

\* C17, amended: the same for a stable node that has headroom and at least
\* one record attached; a node left without records is passed over by the
\* search of the stable tree, and the unit goes on to the unstable tree.
C17_SharedStableBeforeUnstable ==
    ksmd_should_run(Cur) /\ bug = "none" =>
        \A pr \in BOOLEAN, f \in Faults :
            With([r \in {scan_get_next_rmap_item(Cur, f)} |->
            With([T \in {IF r.item = NoUnit THEN r.S
                         ELSE cmp_and_merge_page(r.S, r.item, r.page, pr, f)} |->
               (r.item # NoUnit /\ SharedHeadroomNodes(r.S, r.page) # {})
               => ~UnstablePath(r, T)])])

\* the next evaluation attaches a record to a stable node with headroom
\* while the unstable tree holds a record
C17_MergedIntoStable ==
    /\ ksmd_should_run(Cur) /\ bug = "none"
    /\ root_unstable_tree # <<>>
    /\ With([r \in {scan_get_next_rmap_item(Cur, "none")} |->
          /\ r.item # NoUnit
          /\ HeadroomNodes(r.S, r.page) # {}
          /\ r.S.rmap[r.item].flag # "stable"
          /\ cmp_and_merge_page(r.S, r.item, r.page, FALSE, "none")
                 .rmap[r.item].flag = "stable"])

(***************************************************************************)
(* The failure of the merge with a page of the stable tree.                *)
(***************************************************************************)
\* the state in which the merge of unit u with the page found in the
\* stable tree has failed: [S, err, found]
stable_merge(S, u, p, prune, fault) ==
    LET sn == page_stable_node(S, p)
    IN IF sn # 0 /\ S.rmap[u].head = sn
       THEN [S |-> S, err |-> FALSE, found |-> FALSE]
       ELSE With([s \in {stable_tree_search(S, p, prune, fault = "busy")} |->
          IF s.res <= 0 \/ (s.res = p /\ s.S.rmap[u].head = sn)
          THEN [S |-> s.S, err |-> FALSE, found |-> FALSE]
          ELSE With([m \in {try_to_merge_with_ksm_page(
                                remove_rmap_item_from_tree(s.S, u), u, p, s.res,
                                fault = "merge1")} |->
                  [S |-> m.S, err |-> m.err, found |-> TRUE]])])

\* the faults that bear on the merge with a page of the stable tree
MergeFaults == {"none", "merge1"}

\* no record is attached to a stable node and the counters of the stable
\* tree are those of S
NothingAttached(S, T, u) ==
    /\ T.rmap[u].flag # "stable"
    /\ T.ksm_pages_shared = S.ksm_pages_shared
    /\ T.ksm_pages_sharing = S.ksm_pages_sharing
    /\ T.ksm_stable_node_chains = S.ksm_stable_node_chains
    /\ T.ksm_stable_node_dups = S.ksm_stable_node_dups

EndsUnmerged(S, T, u) ==
    /\ T.rmap[u].flag = "none"
    /\ u \notin Range(T.root_unstable_tree)
    /\ T.rmap[u].oldchecksum = S.rmap[u].oldchecksum
    /\ \A n \in NodeIds :
          /\ S.stable_node[n].head = "free" => T.stable_node[n].head = "free"
          /\ Hlist(T, n) \subseteq Hlist(S, n)
    /\ T.ksm_pages_shared <= S.ksm_pages_shared
    /\ T.ksm_pages_sharing <= S.ksm_pages_sharing

UnstableFaults == {"none", "merge1", "merge2", "alloc", "chainalloc"}

\* the route of cmp_and_merge_page for unit u up to the match in the
\* unstable tree: [found, item, failed]; failed is "merge" when
\* try_to_merge_two_pages returns NULL, "insert" when stable_tree_insert
\* does, "no" when both succeed
unstable_match(S, u, p, prune, fault) ==
    LET sn == page_stable_node(S, p)
        none == [found |-> FALSE, item |-> NoUnit, failed |-> "no"]
    IN IF sn # 0 /\ S.rmap[u].head = sn THEN none
       ELSE With([s \in {stable_tree_search(S, p, prune, fault = "busy")} |->
          IF s.res # 0 THEN none
          ELSE With([S1 \in {remove_rmap_item_from_tree(s.S, u)} |->
             IF /\ S1.ksm_scan.scan_round < initial_round
                /\ ~lksm_test_rmap_frozen(S1, u)
                /\ S1.rmap[u].oldchecksum # calc_checksum(S1.page[p].content)
             THEN none
             ELSE With([t \in {unstable_tree_search_insert(S1, u, p)} |->
                IF t.item = NoUnit THEN none
                ELSE With([k \in {try_to_merge_two_pages(t.S, u, p, t.item,
                                                         t.page, fault)} |->
                   IF k.page = 0
                   THEN [found |-> TRUE, item |-> t.item, failed |-> "merge"]
                   ELSE [found |-> TRUE, item |-> t.item,
                         failed |-> IF stable_tree_insert(k.S, k.page, fault).node = 0
                                    THEN "insert" ELSE "no"]])])])])

\* no stable node is new, neither record is flagged stable, and neither
\* unit maps a KSM page that the evaluation made
UndoneMerge(S, T, u, v) ==
    /\ \A n \in NodeIds :
          S.stable_node[n].head = "free" => T.stable_node[n].head = "free"
    /\ T.rmap[u].flag # "stable" /\ T.rmap[v].flag # "stable"
    /\ \A x \in {u, v} :
          T.pte[x] # 0 /\ ~PageKsm(S, S.pte[x]) => ~PageKsm(T, T.pte[x])

\* the record v is linked in the unstable tree
Tracked(T, v) ==
    v \in Range(T.root_unstable_tree) /\ T.rmap[v].flag = "unstable"

\* C19: when a match is found in the unstable tree and the merge of either
\* side fails, or stable_tree_insert fails, no stable node is created,
\* neither record is flagged stable, a side that was write-protected and
\* upgraded is broken back, and the record of the tree stays in the
\* unstable tree.
C19_FailedUnstableMergeKeepsTreeItem ==
    ksmd_should_run(Cur) /\ bug = "none" =>
        \A pr \in BOOLEAN, f \in UnstableFaults :
            With([r \in {scan_get_next_rmap_item(Cur, f)} |->
               r.item # NoUnit =>
               With([m \in {unstable_match(r.S, r.item, r.page, pr, f)} |->
               With([T \in {cmp_and_merge_page(r.S, r.item, r.page, pr, f)} |->
                  m.found /\ m.failed # "no" =>
                     /\ UndoneMerge(r.S, T, r.item, m.item)
                     /\ Tracked(T, m.item)])])])

\* C19, amended: the record of the tree stays in the unstable tree when
\* the merge of a side fails; when stable_tree_insert fails both merges
\* have been done, the record of the tree has left the unstable tree, and
\* after break_cow neither record is in a tree.
C19_FailedInsertDropsTreeItem ==
    ksmd_should_run(Cur) /\ bug = "none" =>
        \A pr \in BOOLEAN, f \in UnstableFaults :
            With([r \in {scan_get_next_rmap_item(Cur, f)} |->
               r.item # NoUnit =>
               With([m \in {unstable_match(r.S, r.item, r.page, pr, f)} |->
               With([T \in {cmp_and_merge_page(r.S, r.item, r.page, pr, f)} |->
                  m.found /\ m.failed # "no" =>
                     /\ UndoneMerge(r.S, T, r.item, m.item)
                     /\ ~Tracked(T, r.item)
                     /\ m.failed = "merge" => Tracked(T, m.item)
                     /\ m.failed = "insert" =>
                           /\ ~Tracked(T, m.item)
                           /\ T.rmap[m.item].flag = "none"
                           /\ T.rmap[r.item].flag = "none"])])])

\* the next evaluation matches a record of the unstable tree, merges both
\* sides and fails to allocate the stable node
C19_InsertFails ==
    /\ ksmd_should_run(Cur) /\ bug = "none"
    /\ With([r \in {scan_get_next_rmap_item(Cur, "alloc")} |->
          /\ r.item # NoUnit
          /\ unstable_match(r.S, r.item, r.page, FALSE, "alloc").failed = "insert"])

(***************************************************************************)
(* The checksum filter of cmp_and_merge_page.                              *)
(***************************************************************************)
\* the route of cmp_and_merge_page for unit u up to the checksum filter:
\* reached is FALSE when the evaluation returns before it, S is the state
\* at the filter
checksum_step(S, u, p, prune, fault) ==
    LET sn == page_stable_node(S, p)
    IN IF sn # 0 /\ S.rmap[u].head = sn THEN [reached |-> FALSE, S |-> S]
       ELSE With([s \in {stable_tree_search(S, p, prune, fault = "busy")} |->
          IF s.res # 0 THEN [reached |-> FALSE, S |-> s.S]
          ELSE [reached |-> TRUE, S |-> remove_rmap_item_from_tree(s.S, u)]])

\* the record of u in S is not flagged frozen and its checksum is not the
\* one of page p
ChangedUnfrozen(S, u, p) ==
    /\ ~lksm_test_rmap_frozen(S, u)
    /\ S.rmap[u].oldchecksum # calc_checksum(S.page[p].content)

\* the evaluation from S to T stored the checksum of p in the record of u
\* and did nothing else
StoredAndDeferred(S, T, u, p) ==
    /\ T.rmap[u].oldchecksum = calc_checksum(S.page[p].content)
    /\ T.root_unstable_tree = S.root_unstable_tree
    /\ T.rmap[u].flag = S.rmap[u].flag
    /\ T.pte = S.pte

DupLimit == 3              \* max_page_sharing in this specification
MaxDups == 3               \* dups of the chain
DupChain == MaxDups + 1    \* the node of the chain
DupAnon == MaxDups + 1     \* the page of the unit without a record

DupCur == [Cur EXCEPT !.ksm_max_page_sharing = DupLimit]

\* the units whose rmap_item hangs on dup n
DupItems(att, n) == {u \in Units : att[u] = n}

DupInit ==
    /\ \E k \in 1..MaxDups :
       \E att \in [Units -> 0..k], mapped \in SUBSET Units,
          own \in Units \cup {NoUnit}, c \in Contents :
          /\ \A n \in 1..k : Cardinality(DupItems(att, n)) <= DupLimit
          /\ \A u \in mapped : att[u] # 0
          /\ own # NoUnit => att[own] = 0
          /\ own = NoUnit => c = 1
          /\ pte = [u \in Units |-> IF u \in mapped THEN att[u]
                                    ELSE IF u = own THEN DupAnon ELSE 0]
          /\ page = [p \in Pages |->
                       IF \E u \in mapped : att[u] = p
                       THEN [kind |-> "ksm", node |-> p, content |-> 1]
                       ELSE IF p = DupAnon /\ own # NoUnit
                       THEN [kind |-> "anon", node |-> 0, content |-> c]
                       ELSE FreePage]
          /\ rmap = [u \in Units |->
                       IF att[u] = 0 THEN NoItem
                       ELSE [present |-> TRUE, flag |-> "stable", seqnr |-> 0,
                             oldchecksum |-> calc_checksum(1),
                             head |-> att[u]]]
          /\ stable_node = [n \in NodeIds |->
                IF n = DupChain
                THEN [head |-> "rb", kpfn |-> 0,
                      rmap_hlist_len |-> STABLE_NODE_CHAIN,
                      hlist |-> [i \in 1..k |-> i]]
                ELSE IF n <= k
                THEN [head |-> "dup", kpfn |-> n,
                      rmap_hlist_len |-> Cardinality(DupItems(att, n)),
                      hlist |-> <<>>]
                ELSE FreeNode]
          /\ ksm_pages_shared = Cardinality({n \in 1..k : DupItems(att, n) # {}})
          /\ ksm_pages_sharing =
                Cardinality({u \in Units : att[u] # 0})
                   - Cardinality({n \in 1..k : DupItems(att, n) # {}})
          /\ ksm_rmap_items = Cardinality({u \in Units : att[u] # 0})
          /\ ksm_stable_node_dups = k
    /\ ksm_stable_node_chains = 1
    /\ root_stable_tree = <<DupChain>>
    /\ root_unstable_tree = <<>>
    /\ migrate_nodes = <<>>
    /\ ksm_pages_unshared = 0
    /\ lksm_slot_nr_merged = 0
    /\ lksm_nr_scanned_slot = 0
    /\ mm_stage = [m \in MMs |-> "live"]
    /\ mm_slot = [m \in MMs |-> [NoSlot EXCEPT !.st = "hashed",
                                               !.state = {"LISTED"},
                                               !.scan_link = "on"]]
    /\ mm_list = [m \in MMs |-> m]
    /\ scan_list = [m \in MMs |-> m]
    /\ remove_mm_list = <<>>
    /\ vips_list = <<>>
    /\ frozen_task_list = <<>>
    /\ ksm_scan = [InitScan EXCEPT !.scan_round = 1, !.scan_mode = "FULL",
                                   !.nr_scannable = NumMM]
    /\ ksm_crawl_round = 1
    /\ ksm_run = KSM_RUN_MERGE
    /\ ksm_state = 1
    /\ ksm_one_shot_scanning = LKSM_SCAN_NONE
    /\ bug = "none"
    /\ in_freezer = [m \in MMs |-> FALSE]
    /\ env = 0
    /\ ctl = 0
    /\ crawl_pc = "wait"
    /\ scan_pc = "do_scan"
    /\ need_to_sleep = FALSE
    /\ gkp = NoCall
    /\ passed = [m \in MMs |-> <<>>]
    /\ faulted = {}
    /\ mig = NoMigration

DupIdle ==
    UNCHANGED <<in_freezer, env, ctl, crawl_pc, scan_pc, need_to_sleep, passed,
                faulted>>

\* the chain in the tree, 0 when it has been collapsed or freed
TheChain(S) ==
    IF \E c \in Range(S.root_stable_tree) : is_stable_node_chain(S, c)
    THEN CHOOSE c \in Range(S.root_stable_tree) : is_stable_node_chain(S, c)
    ELSE 0

\* a lookup comes to the chain: chain_prune (prune) or chain
DupLookup ==
    /\ bug = "none"
    /\ TheChain(Cur) # 0
    /\ \E prune \in BOOLEAN :
          Commit(stable_node_dup(DupCur, TheChain(Cur), prune).S)
    /\ DupIdle

\* munmap of the page at u
DupUnmap ==
    /\ bug = "none"
    /\ \E u \in Units : pte[u] # 0 /\ Commit(zap_pte(Cur, u))
    /\ DupIdle

DupNext == DupLookup \/ DupUnmap

DupSpec == DupInit /\ [][DupNext]_vars

\* the dups of chain c with a live page that are sharing candidates, in the
\* order of the chain
LiveCandidates(S, c) ==
    SelectSeq(S.stable_node[c].hlist,
              LAMBDA d : PageIsKey(S, d) /\ is_page_sharing_candidate(S, d))

\* the headroom of dup d
Headroom(S, d) == S.ksm_max_page_sharing - S.stable_node[d].rmap_hlist_len

\* the first dup of seq whose headroom no dup of seq exceeds: 0 if none
FirstWidest(S, seq) ==
    IF seq = <<>> THEN 0
    ELSE seq[Min({i \in 1..Len(seq) :
                    \A j \in 1..Len(seq) : Headroom(S, seq[j]) <= Headroom(S, seq[i])})]

\* the first dup of seq with the most records: 0 if none
FirstFullest(S, seq) ==
    IF seq = <<>> THEN 0
    ELSE seq[Min({i \in 1..Len(seq) :
                    \A j \in 1..Len(seq) : Headroom(S, seq[j]) >= Headroom(S, seq[i])})]

\* C21: a pruning lookup in a chain returns, among the live dups with
\* 0 < rmap_hlist_len < ksm_max_page_sharing, the dup with the largest
\* remaining headroom, the first found on ties.
C21_DupWithLargestHeadroom ==
    TheChain(Cur) # 0 /\ bug = "none" =>
        stable_node_dup(DupCur, TheChain(Cur), TRUE).dup
            = FirstWidest(DupCur, LiveCandidates(DupCur, TheChain(Cur)))

\* C21, amended: a pruning lookup in a chain returns, among the live dups
\* with 0 < rmap_hlist_len < ksm_max_page_sharing, the dup with the most
\* records, that is the smallest remaining headroom, the first found on
\* ties, and no dup when there is none.
C21_DupWithSmallestHeadroom ==
    TheChain(Cur) # 0 /\ bug = "none" =>
        stable_node_dup(DupCur, TheChain(Cur), TRUE).dup
            = FirstFullest(DupCur, LiveCandidates(DupCur, TheChain(Cur)))

\* a chain whose first live candidate has one record and a later one two:
\* the pruning lookup returns the later one
C21_FullerDupLater ==
    /\ TheChain(Cur) # 0 /\ bug = "none"
    /\ \E d, e \in NodeIds :
         LET seq == LiveCandidates(DupCur, TheChain(Cur))
         IN /\ Len(seq) >= 2 /\ seq[1] = d /\ seq[2] = e
            /\ stable_node[d].rmap_hlist_len = 1
            /\ stable_node[e].rmap_hlist_len = 2
            /\ stable_node_dup(DupCur, TheChain(Cur), TRUE).dup = e

\* the dups of chain c with a live page, in the order of the chain
LiveInChain(S, c) ==
    SelectSeq(S.stable_node[c].hlist, LAMBDA d : PageIsKey(S, d))

\* the dups of chain c whose page is gone
DeadInChain(S, c) ==
    {d \in Range(S.stable_node[c].hlist) : ~PageIsKey(S, d)}

\* from S to T the chain c was replaced in the tree by its dup d, the chain
\* was freed, and the counters of chains and dups went down by one each
\* after the eviction of the dead dups
Collapsed(S, T, c, d) ==
    /\ T.root_stable_tree = ReplaceIn(S.root_stable_tree, c, d)
    /\ T.stable_node[d].head = "rb"
    /\ T.stable_node[d].rmap_hlist_len = S.stable_node[d].rmap_hlist_len
    /\ T.stable_node[c] = FreeNode
    /\ T.ksm_stable_node_chains = S.ksm_stable_node_chains - 1
    /\ T.ksm_stable_node_dups =
          S.ksm_stable_node_dups - Cardinality(DeadInChain(S, c)) - 1

\* from S to T the chain c stayed in the tree with its live dups
ChainKept(S, T, c) ==
    /\ T.root_stable_tree = S.root_stable_tree
    /\ is_stable_node_chain(T, c)
    /\ Range(T.stable_node[c].hlist) = Range(LiveInChain(S, c))
    /\ \A d \in Range(T.stable_node[c].hlist) : T.stable_node[d].head = "dup"
    /\ T.ksm_stable_node_chains = S.ksm_stable_node_chains
    /\ T.ksm_stable_node_dups =
          S.ksm_stable_node_dups - Cardinality(DeadInChain(S, c))

\* C22: after a pruning lookup of a chain has evicted the dead dups, if
\* exactly one live dup remains the chain is replaced in the tree by that
\* dup as a regular node, the chain is freed, and ksm_stable_node_chains and
\* ksm_stable_node_dups go down by one each, whether the remaining dup has
\* headroom or not.
C22_ChainCollapseAnyHeadroom ==
    TheChain(Cur) # 0 /\ bug = "none" =>
        LET c == TheChain(Cur)
            live == LiveInChain(DupCur, c)
        IN Len(live) = 1 =>
              Collapsed(DupCur, stable_node_dup(DupCur, c, TRUE).S, c, live[1])

\* C22, amended: the chain collapses when exactly one live dup remains and
\* that dup is a sharing candidate (0 < rmap_hlist_len <
\* ksm_max_page_sharing); in every other case the pruning lookup leaves the
\* chain in the tree with its live dups.
C22_ChainCollapseWithHeadroom ==
    TheChain(Cur) # 0 /\ bug = "none" =>
        LET c == TheChain(Cur)
            live == LiveInChain(DupCur, c)
        IN With([r \in {stable_node_dup(DupCur, c, TRUE)} |->
              IF Len(live) = 1 /\ is_page_sharing_candidate(DupCur, live[1])
              THEN /\ Collapsed(DupCur, r.S, c, live[1])
                   /\ r.dup = live[1] /\ r.stable_node = live[1]
              ELSE ChainKept(DupCur, r.S, c)])

\* a chain with a dead dup and one live dup that has headroom: the pruning
\* lookup evicts the one and collapses the chain onto the other
C22_CollapseAfterEviction ==
    /\ TheChain(Cur) # 0 /\ bug = "none"
    /\ DeadInChain(DupCur, TheChain(Cur)) # {}
    /\ Len(LiveInChain(DupCur, TheChain(Cur))) = 1
    /\ With([r \in {stable_node_dup(DupCur, TheChain(Cur), TRUE)} |->
          /\ r.S.root_stable_tree = <<r.dup>>
          /\ r.S.ksm_stable_node_chains = 0
          /\ r.S.ksm_stable_node_dups = 0])

\* C23: when stable_node_dup runs with pruning and counts exactly one live
\* dup, a sharing candidate, the list of the chain holds exactly that dup,
\* and BUG_ON(stable_node->hlist.first->next) does not fire.
C23_CollapseAssertionHolds ==
    TheChain(Cur) # 0 /\ bug = "none" =>
        LET c == TheChain(Cur)
        IN /\ With([w \in {dup_walk(DupCur, stable_node[c].hlist, 1, 0, 0, TRUE)} |->
                 w.nr = 1 /\ w.found # 0 =>
                    w.S.stable_node[c].hlist = <<w.found>>])
           /\ stable_node_dup(DupCur, c, TRUE).S.bug = "none"

\* a chain of three dups, two of them dead: the pruning walk counts one live
\* dup, a sharing candidate, and leaves it alone on the list
C23_TwoDeadOneLive ==
    /\ TheChain(Cur) # 0 /\ bug = "none"
    /\ Len(stable_node[TheChain(Cur)].hlist) = 3
    /\ With([w \in {dup_walk(DupCur, stable_node[TheChain(Cur)].hlist,
                             1, 0, 0, TRUE)} |->
          /\ w.nr = 1 /\ w.found # 0
          /\ Len(w.S.stable_node[TheChain(Cur)].hlist) = 1])

\* the scanner never stops at the BUG_ON of stable_node_dup
CollapseAssertionNeverFires == bug # "stable_node_dup"

(***************************************************************************)
(* Stale nodes met by the walks of the stable tree.                        *)
(***************************************************************************)
\* the stable nodes in use: regular nodes, chains and dups
Allocated(S) == {n \in NodeIds : S.stable_node[n].head # "free"}

\* the pages a walk can be made for
WalkPages(S) == {p \in Pages : S.page[p].kind = "anon" /\ page_mapped(S, p)}

\* the walks of stable_tree_search and stable_tree_insert from the root
WalksFrom(S) ==
    {stable_search_walk(S, p, 1, Len(S.root_stable_tree), pr, FALSE) :
        p \in WalkPages(S), pr \in BOOLEAN}
    \cup {stable_insert_walk(S, p, 1, Len(S.root_stable_tree)) :
        p \in WalkPages(S)}

\* C24: whenever stable_tree_search or stable_tree_insert meets a node whose
\* page is gone, the node is removed and the walk restarts from the root;
\* every restart follows the removal of at least one node, so the walk ends.
C24_StaleNodeRestartsWalk ==
    bug = "none" =>
        \A w \in WalksFrom(DupCur) :
            /\ Allocated(w.S) # Allocated(Cur) => w.restarts >= 1
            /\ w.restarts <= Cardinality(Allocated(Cur) \ Allocated(w.S))

\* C24, amended: every restart follows the removal of at least one node,
\* so a walk restarts at most as often as there are nodes; a stale regular
\* node, a stale dup taken to stand for its chain, and an empty chain are
\* removed with a restart, while the stale dups that stable_node_dup passes
\* on its way to a usable dup, and a chain that collapses, are removed and
\* the walk goes on from where it is.
C24_RestartsBoundedByRemovals ==
    bug = "none" =>
        \A w \in WalksFrom(DupCur) :
            /\ w.restarts <= Cardinality(Allocated(Cur) \ Allocated(w.S))
            /\ Allocated(w.S) \subseteq Allocated(Cur)
            /\ w.restarts = 0 =>
                  \A n \in Allocated(Cur) \ Allocated(w.S) :
                      \/ is_stable_node_dup(Cur, n)
                      \/ is_stable_node_chain(Cur, n)
            /\ \A n \in Allocated(Cur) \ Allocated(w.S) :
                  ~is_stable_node_dup(Cur, n) /\ ~is_stable_node_chain(Cur, n)
                     => w.restarts >= 1

\* a walk passes a stale dup, removes it and goes on without a restart
C24_StaleDupPassed ==
    /\ bug = "none"
    /\ \E w \in WalksFrom(DupCur) :
          /\ w.restarts = 0
          /\ \E n \in Allocated(Cur) \ Allocated(w.S) :
                is_stable_node_dup(Cur, n)
          /\ TheChain(w.S) # 0

\* a walk meets a stale regular node, removes it and restarts
WalkRestarted ==
    /\ bug = "none"
    /\ \E w \in WalksFrom(DupCur) :
          /\ w.restarts >= 1
          /\ \E n \in Allocated(Cur) \ Allocated(w.S) :
                stable_node[n].head = "rb" /\ ~is_stable_node_chain(Cur, n)

(***************************************************************************)
(* The round tag of a record of the unstable tree.                         *)
(***************************************************************************)
\* C25: remove_rmap_item_from_tree erases a record from the unstable tree
\* exactly when the record was inserted since the last reset of the tree:
\* a record that is linked in the tree is unlinked by the call, and a record
\* that is not linked is not erased, whatever the rounds that have gone by
\* and after unmerge has set scan_round to 0.
C25_RoundTagDecidesErase ==
    \A u \in Units :
        rmap[u].present /\ rmap[u].flag = "unstable" =>
            /\ u \notin Range(remove_rmap_item_from_tree(Cur, u).root_unstable_tree)
            /\ Age(Cur, u) = 0 => u \in Range(root_unstable_tree)

\* a record is erased only if it is linked in the tree
ErasesOnlyLinked ==
    \A u \in Units :
        rmap[u].present /\ rmap[u].flag = "unstable" /\ Age(Cur, u) = 0
            => u \in Range(root_unstable_tree)

(***************************************************************************)
(* get_ksm_page against ksm_migrate_page.  The call and the migration of   *)
(* the page of one stable node run step by step: every read and every      *)
(* store of the two functions is a step, in program order (smp_wmb in      *)
(* ksm_migrate_page and smp_rmb in get_ksm_page keep the order).  The      *)
(* caller of ksm_migrate_page holds both pages locked and has set the      *)
(* mapping of the new page; a page in the swap cache has its count frozen  *)
(* while its mapping moves.  One migration runs against any number of      *)
(* calls of get_ksm_page.                                                  *)
(***************************************************************************)
GkpFlags == {"NOLOCK", "LOCK", "TRYLOCK"}

\* READ_ONCE(page->mapping) == expected_mapping, for node n
expected_mapping(S, p, n) ==
    p # 0 /\ S.page[p].kind = "ksm" /\ S.page[p].node = n

\* the pages the migration holds locked and referenced
MigPages(m) ==
    IF m.pc \in {"idle", "done"} THEN {} ELSE {m.oldpage, m.newpage}

\* page_count(p) == 0: a free page, or the page under page_ref_freeze
page_ref_zero(S, m, p) ==
    S.page[p].kind = "free" \/ (m.frozen /\ m.oldpage = p)

PageSwapCache(m, p) == m.swapcache /\ p \in MigPages(m)

\* put_page: the page is freed with its last reference
put_page(S, g, m, p) ==
    IF page_mapped(S, p) \/ p \in MigPages(m) \/ (g.ref /\ g.kpfn = p)
    THEN S
    ELSE [S EXCEPT !.page[p] = FreePage]

\* get_ksm_page that removes a stale-looking node without reading kpfn again
get_ksm_page_step_blind(S, g, m) ==
    With([n \in {g.node} |->
    CASE g.pc = "again" ->
           [S |-> S, g |-> [g EXCEPT !.kpfn = S.stable_node[n].kpfn,
                                     !.pc = "mapping"]]
      [] g.pc = "mapping" ->
           [S |-> S,
            g |-> [g EXCEPT !.pc = IF expected_mapping(S, g.kpfn, n)
                                   THEN "getref" ELSE "stale"]]
      [] g.pc = "getref" ->
           IF page_ref_zero(S, m, g.kpfn)
           THEN [S |-> S, g |-> [g EXCEPT !.pc = "stale"]]
           ELSE [S |-> S, g |-> [g EXCEPT !.ref = TRUE, !.pc = "recheck"]]
      [] g.pc = "recheck" ->
           IF ~expected_mapping(S, g.kpfn, n)
           THEN With([h \in {[g EXCEPT !.ref = FALSE, !.pc = "stale"]} |->
                    [S |-> put_page(S, h, m, g.kpfn), g |-> h]])
           ELSE [S |-> S,
                 g |-> [g EXCEPT !.pc = IF g.flags = "NOLOCK" THEN "ret"
                                        ELSE "lock",
                                 !.ret = IF g.flags = "NOLOCK" THEN "page"
                                         ELSE @]]
      [] g.pc = "lock" ->
           IF g.kpfn \in MigPages(m)
           THEN With([h \in {[g EXCEPT !.ref = FALSE, !.pc = "ret",
                                       !.ret = "EBUSY"]} |->
                    [S |-> put_page(S, h, m, g.kpfn), g |-> h]])
           ELSE [S |-> S, g |-> [g EXCEPT !.locked = TRUE, !.pc = "lockcheck"]]
      [] g.pc = "lockcheck" ->
           IF ~expected_mapping(S, g.kpfn, n)
           THEN With([h \in {[g EXCEPT !.ref = FALSE, !.locked = FALSE,
                                       !.pc = "stale"]} |->
                    [S |-> put_page(S, h, m, g.kpfn), g |-> h]])
           ELSE [S |-> S, g |-> [g EXCEPT !.pc = "ret", !.ret = "page"]]
      [] g.pc = "stale" ->
           [S |-> S, g |-> [g EXCEPT !.pc = "remove"]]
      [] g.pc = "remove" ->
           [S |-> remove_node_from_stable_tree(S, n),
            g |-> [g EXCEPT !.pc = "ret", !.ret = "NULL"]]
      [] OTHER -> [S |-> S, g |-> g]])

\* one step of get_ksm_page(g.node, g.flags) at g.pc:
\* [S |-> the state after the step, g |-> the frame after the step]
get_ksm_page_step(S, g, m) ==
    With([n \in {g.node} |->
    CASE g.pc = "again" ->
           [S |-> S, g |-> [g EXCEPT !.kpfn = S.stable_node[n].kpfn,
                                     !.pc = "mapping"]]
      [] g.pc = "mapping" ->
           [S |-> S,
            g |-> [g EXCEPT !.pc = IF expected_mapping(S, g.kpfn, n)
                                   THEN "getref" ELSE "stale"]]
      [] g.pc = "getref" ->
           IF page_ref_zero(S, m, g.kpfn)
           THEN [S |-> S, g |-> [g EXCEPT !.pc = "stale"]]
           ELSE [S |-> S, g |-> [g EXCEPT !.ref = TRUE, !.pc = "recheck"]]
      [] g.pc = "recheck" ->
           IF ~expected_mapping(S, g.kpfn, n)
           THEN With([h \in {[g EXCEPT !.ref = FALSE, !.pc = "stale"]} |->
                    [S |-> put_page(S, h, m, g.kpfn), g |-> h]])
           ELSE [S |-> S,
                 g |-> [g EXCEPT !.pc = IF g.flags = "NOLOCK" THEN "ret"
                                        ELSE "lock",
                                 !.ret = IF g.flags = "NOLOCK" THEN "page"
                                         ELSE @]]
      [] g.pc = "lock" ->
           IF g.kpfn \in MigPages(m)
           THEN With([h \in {[g EXCEPT !.ref = FALSE, !.pc = "ret",
                                       !.ret = "EBUSY"]} |->
                    [S |-> put_page(S, h, m, g.kpfn), g |-> h]])
           ELSE [S |-> S, g |-> [g EXCEPT !.locked = TRUE, !.pc = "lockcheck"]]
      [] g.pc = "lockcheck" ->
           IF ~expected_mapping(S, g.kpfn, n)
           THEN With([h \in {[g EXCEPT !.ref = FALSE, !.locked = FALSE,
                                       !.pc = "stale"]} |->
                    [S |-> put_page(S, h, m, g.kpfn), g |-> h]])
           ELSE [S |-> S, g |-> [g EXCEPT !.pc = "ret", !.ret = "page"]]
      [] g.pc = "stale" ->
           IF S.stable_node[n].kpfn # g.kpfn
           THEN [S |-> S, g |-> [g EXCEPT !.pc = "again", !.again = TRUE]]
           ELSE [S |-> S, g |-> [g EXCEPT !.pc = "remove"]]
      [] g.pc = "remove" ->
           [S |-> remove_node_from_stable_tree(S, n),
            g |-> [g EXCEPT !.pc = "ret", !.ret = "NULL"]]
      [] OTHER -> [S |-> S, g |-> g]])

\* the step at g.pc can be taken: the wait for a frozen count of a page of
\* the swap cache (cpu_relax) and lock_page on a locked page do not return
GkpCanStep(S, g, m) ==
    /\ g.pc \in {"again", "mapping", "getref", "recheck", "lock", "lockcheck",
                 "stale", "remove"}
    /\ g.pc = "getref" =>
          ~(page_ref_zero(S, m, g.kpfn) /\ PageSwapCache(m, g.kpfn))
    /\ g.pc = "lock" /\ g.flags = "LOCK" => g.kpfn \notin MigPages(m)

\* one step of ksm_migrate_page(m.newpage, m.oldpage) at m.pc
ksm_migrate_page_step(S, m) ==
    With([n \in {S.page[m.newpage].node} |->
    CASE m.pc = "kpfn" ->
           IF n = 0 THEN [S |-> S, m |-> [m EXCEPT !.pc = "end"]]
           ELSE [S |-> [S EXCEPT !.stable_node[n].kpfn = m.newpage],
                 m |-> [m EXCEPT !.pc = "mapping"]]
      [] m.pc = "mapping" ->
           [S |-> [S EXCEPT !.page[m.oldpage].node = 0],
            m |-> [m EXCEPT !.pc = "end"]]
      [] OTHER -> [S |-> S, m |-> m]])

MigNode == Min(NodeIds)    \* the stable node of the page that migrates

MigInit ==
    /\ \E sh \in SUBSET Units, c \in Contents :
          /\ Cardinality(sh) \in 1..ksm_max_page_sharing
          /\ pte = [u \in Units |-> IF u \in sh THEN 1 ELSE 0]
          /\ page = [p \in Pages |->
                       IF p = 1
                       THEN [kind |-> "ksm", node |-> MigNode, content |-> c]
                       ELSE FreePage]
          /\ rmap = [u \in Units |->
                       IF u \notin sh THEN NoItem
                       ELSE [present |-> TRUE, flag |-> "stable", seqnr |-> 0,
                             oldchecksum |-> calc_checksum(c),
                             head |-> MigNode]]
          /\ stable_node = [n \in NodeIds |->
                IF n = MigNode
                THEN [head |-> "rb", kpfn |-> 1,
                      rmap_hlist_len |-> Cardinality(sh), hlist |-> <<>>]
                ELSE FreeNode]
          /\ ksm_pages_sharing = Cardinality(sh) - 1
          /\ ksm_rmap_items = Cardinality(sh)
    /\ ksm_pages_shared = 1
    /\ ksm_stable_node_chains = 0
    /\ ksm_stable_node_dups = 0
    /\ root_stable_tree = <<MigNode>>
    /\ root_unstable_tree = <<>>
    /\ migrate_nodes = <<>>
    /\ ksm_pages_unshared = 0
    /\ lksm_slot_nr_merged = 0
    /\ lksm_nr_scanned_slot = 0
    /\ mm_stage = [m \in MMs |-> "live"]
    /\ mm_slot = [m \in MMs |-> [NoSlot EXCEPT !.st = "hashed",
                                               !.state = {"LISTED"},
                                               !.scan_link = "on"]]
    /\ mm_list = [m \in MMs |-> m]
    /\ scan_list = [m \in MMs |-> m]
    /\ remove_mm_list = <<>>
    /\ vips_list = <<>>
    /\ frozen_task_list = <<>>
    /\ ksm_scan = [InitScan EXCEPT !.scan_round = 1, !.scan_mode = "FULL",
                                   !.nr_scannable = NumMM]
    /\ ksm_crawl_round = 1
    /\ ksm_run = KSM_RUN_MERGE
    /\ ksm_state = 1
    /\ ksm_one_shot_scanning = LKSM_SCAN_NONE
    /\ bug = "none"
    /\ in_freezer = [m \in MMs |-> FALSE]
    /\ env = 0
    /\ ctl = 0
    /\ crawl_pc = "wait"
    /\ scan_pc = "do_scan"
    /\ need_to_sleep = FALSE
    /\ gkp = NoCall
    /\ passed = [m \in MMs |-> <<>>]
    /\ faulted = {}
    /\ mig = NoMigration

\* the scanner calls get_ksm_page on a node of the tree
GkpCall ==
    /\ gkp.pc = "idle"
    /\ \E n \in NodeIds, f \in GkpFlags :
          /\ stable_node[n].head # "free"
          /\ gkp' = [NoCall EXCEPT !.pc = "again", !.node = n, !.flags = f]
    /\ CommitShared(Cur)
    /\ UNCHANGED mig
    /\ DupIdle

\* a step of get_ksm_page
GkpStep ==
    /\ GkpCanStep(Cur, gkp, mig)
    /\ \E r \in {get_ksm_page_step(Cur, gkp, mig)} :
          CommitShared(r.S) /\ gkp' = r.g
    /\ UNCHANGED mig
    /\ DupIdle

\* the caller of get_ksm_page is done with the page: unlock_page, put_page
GkpReturn ==
    /\ gkp.pc = "ret"
    /\ gkp' = NoCall
    /\ CommitShared(IF gkp.ret = "page"
                    THEN put_page(Cur, NoCall, mig, gkp.kpfn) ELSE Cur)
    /\ UNCHANGED mig
    /\ DupIdle

\* the migration of a ksm page begins: a new page is allocated, both pages
\* are locked, nobody else holds a reference to the old page, the count of
\* a page of the swap cache is frozen, and newpage->mapping is set
MigrateBegin ==
    /\ mig.pc = "idle"
    /\ HasFreePage(Cur)
    /\ \E p \in Pages, sc \in BOOLEAN :
          /\ PageKsm(Cur, p) /\ page_mapped(Cur, p)
          /\ ~(gkp.ref /\ gkp.kpfn = p)
          /\ mig' = [pc |-> IF sc THEN "unfreeze" ELSE "kpfn", oldpage |-> p,
                     newpage |-> alloc_page(Cur), swapcache |-> sc,
                     frozen |-> sc]
          /\ CommitShared([Cur EXCEPT !.page[alloc_page(Cur)] = page[p]])
    /\ UNCHANGED gkp
    /\ DupIdle

\* page_ref_unfreeze at the end of migrate_page_move_mapping
MigrateUnfreeze ==
    /\ mig.pc = "unfreeze"
    /\ mig' = [mig EXCEPT !.frozen = FALSE, !.pc = "kpfn"]
    /\ CommitShared(Cur)
    /\ UNCHANGED gkp
    /\ DupIdle

\* a step of ksm_migrate_page
MigrateStep ==
    /\ mig.pc \in {"kpfn", "mapping"}
    /\ \E r \in {ksm_migrate_page_step(Cur, mig)} :
          CommitShared(r.S) /\ mig' = r.m
    /\ UNCHANGED gkp
    /\ DupIdle

\* the migration ends: the ptes point to the new page, the pages are
\* unlocked and the old page is released
MigrateEnd ==
    /\ mig.pc = "end"
    /\ mig' = [mig EXCEPT !.pc = "done"]
    /\ \E S \in {[Cur EXCEPT !.pte = [u \in Units |->
                                           IF pte[u] = mig.oldpage
                                           THEN mig.newpage ELSE pte[u]]]} :
          CommitShared(put_page(S, gkp, [mig EXCEPT !.pc = "done"],
                                mig.oldpage))
    /\ UNCHANGED gkp
    /\ DupIdle

\* munmap of the page at u, outside the migration
MigUnmap ==
    /\ mig.pc \in {"idle", "done"}
    /\ \E u \in Units :
          /\ pte[u] # 0
          /\ CommitShared(put_page([Cur EXCEPT !.pte[u] = 0], gkp, mig, pte[u]))
    /\ UNCHANGED <<gkp, mig>>
    /\ DupIdle

MigNext ==
    \/ GkpCall
    \/ GkpStep
    \/ GkpReturn
    \/ MigrateBegin
    \/ MigrateUnfreeze
    \/ MigrateStep
    \/ MigrateEnd
    \/ MigUnmap

MigSpec == MigInit /\ [][MigNext]_vars

\* C26: in every interleaving of get_ksm_page with ksm_migrate_page on one
\* stable node, the node leaves the stable tree only in the last step of
\* get_ksm_page, with kpfn as the call read it and with no page whose
\* mapping is the node; the call that finds the mapping stale reads kpfn
\* again, starts over when kpfn has changed and goes on to the removal only
\* when it has not.
C26_KeyholeVersusMigration ==
    [][/\ \A n \in NodeIds :
             stable_node[n].head # "free" /\ stable_node'[n].head = "free" =>
                /\ gkp.pc = "remove" /\ gkp.node = n
                /\ stable_node[n].kpfn = gkp.kpfn
                /\ \A p \in Pages : ~expected_mapping(Cur, p, n)
       /\ gkp.pc = "stale" /\ gkp' # gkp =>
             /\ stable_node' = stable_node
             /\ gkp'.pc = IF stable_node[gkp.node].kpfn # gkp.kpfn
                          THEN "again" ELSE "remove"]_vars

\* a call that found the old page stale has started over and has gotten the
\* page at its new location, the node still in the tree
C26_RetryFindsMigratedPage ==
    /\ gkp.again /\ gkp.pc = "ret" /\ gkp.ret = "page"
    /\ mig.pc \in {"mapping", "end", "done"}
    /\ gkp.kpfn = mig.newpage
    /\ stable_node[gkp.node].head = "rb"

\* a call has removed the node of a page that was freed
KeyholeRemovesStaleNode ==
    gkp.pc = "ret" /\ gkp.ret = "NULL" /\ stable_node[gkp.node].head = "free"

(***************************************************************************)
(* The ranking of the owners.  Every owner has a slot; a step is the end   *)
(* of the scan of a slot in a round with some number of merges (the slot   *)
(* leaves vips_list, its window is updated and it is ranked again unless   *)
(* its sum is zero), the removal of a slot, or a new slot for the owner of *)
(* a removed one.                                                          *)
(***************************************************************************)
MaxMerged == 2             \* merges of one slot in one round
MaxPassed == 4             \* rounds of one slot

RankInit ==
    /\ InitKsmData
    /\ ksm_run = KSM_RUN_MERGE
    /\ mm_stage = [m \in MMs |-> "live"]
    /\ pte = [u \in Units |-> HomePage(u)]
    /\ page = [p \in Pages |->
                 IF \E u \in Units : HomePage(u) = p
                 THEN [kind |-> "anon", node |-> 0, content |-> 1]
                 ELSE FreePage]

RankIdle ==
    UNCHANGED <<in_freezer, env, ctl, crawl_pc, scan_pc, need_to_sleep, gkp, mig,
                faulted>>

\* the crawler has listed and counted the slot of m for a round
listed_for_round(S, m) ==
    [S EXCEPT !.mm_slot[m].state = (@ \ {"SCANNED", "NEWCOMER"}) \cup {"LISTED"},
              !.mm_slot[m].scan_link = "on",
              !.scan_list = IF m \in Range(@) THEN @ ELSE Append(@, m),
              !.ksm_scan.nr_scannable = @ + 1]

\* madvise of a new owner: the slot is allocated with a zeroed window
RankEnter(m) ==
    /\ mm_slot[m].st = "none"
    /\ CommitShared(ksm_enter_alloc_slot(Cur, m, FALSE))
    /\ passed' = [passed EXCEPT ![m] = <<>>]
    /\ RankIdle

\* the scan of the slot of m completes in a round with nr merges
RankSlot(m, nr) ==
    /\ mm_slot[m].st = "hashed"
    /\ Len(passed[m]) < MaxPassed
    /\ CommitShared(slot_scanned(
          [listed_for_round(Cur, m) EXCEPT !.lksm_slot_nr_merged = nr], m))
    /\ passed' = [passed EXCEPT ![m] = Append(@, nr)]
    /\ RankIdle

\* the owner exits: its slot is removed, and freed by the deferred flush
RankRemove(m) ==
    /\ mm_slot[m].st = "hashed"
    /\ CommitShared(lksm_flush_removed_mm_list(lksm_remove_mm_slot(Cur, m)))
    /\ passed' = [passed EXCEPT ![m] = <<>>]
    /\ RankIdle

RankNext ==
    \/ \E m \in MMs : RankEnter(m)
    \/ \E m \in MMs, nr \in 0..MaxMerged : RankSlot(m, nr)
    \/ \E m \in MMs : RankRemove(m)

RankSpec == RankInit /\ [][RankNext]_vars

\* the position of slot m in list
RankPos(list, m) == CHOOSE i \in 1..Len(list) : list[i] = m

\* list is in non-increasing order of nr_merged
NonIncreasing(list, slots) ==
    \A i, j \in 1..Len(list) :
        i < j => slots[list[i]].nr_merged >= slots[list[j]].nr_merged

\* the slots of vips_list that were ranked in this step
RankedNow == {m \in Range(vips_list') : passed'[m] # passed[m]}

\* the slots that stay on vips_list keep their order
OthersKeepOrder ==
    \A a, b \in (Range(vips_list) \cap Range(vips_list')) \ RankedNow :
        RankPos(vips_list, a) < RankPos(vips_list, b)
            => RankPos(vips_list', a) < RankPos(vips_list', b)

\* C27, as stated: after any sequence of inserts and removals vips_list is
\* in non-increasing order of nr_merged from rb_first on, and among slots
\* with equal nr_merged the slot that was ranked more recently comes first.
C27_RankedNewestFirst ==
    [][/\ NonIncreasing(vips_list', mm_slot')
       /\ OthersKeepOrder
       /\ \A m \in RankedNow : \A o \in Range(vips_list') \ {m} :
             mm_slot'[o].nr_merged = mm_slot'[m].nr_merged
                => RankPos(vips_list', m) < RankPos(vips_list', o)]_vars

\* C27, amended: after any sequence of inserts and removals vips_list is in
\* non-increasing order of nr_merged from rb_first on, and among slots with
\* equal nr_merged the slot that was ranked earlier comes first.
C27_RankedOldestFirst ==
    [][/\ NonIncreasing(vips_list', mm_slot')
       /\ OthersKeepOrder
       /\ \A m \in RankedNow : \A o \in Range(vips_list') \ {m} :
             mm_slot'[o].nr_merged = mm_slot'[m].nr_merged
                => RankPos(vips_list', o) < RankPos(vips_list', m)]_vars

\* two slots of equal nr_merged are ranked, after rounds with different
\* numbers of merges
C27_TieInList ==
    /\ Len(vips_list) = NumMM
    /\ \A a, b \in Range(vips_list) : mm_slot[a].nr_merged = mm_slot[b].nr_merged
    /\ \E a, b \in Range(vips_list) : passed[a] # passed[b]

\* the sum of the last k values of seq
RECURSIVE SumLast(_, _)
SumLast(seq, k) ==
    IF k = 0 \/ seq = <<>> THEN 0
    ELSE seq[Len(seq)] + SumLast(SubSeq(seq, 1, Len(seq) - 1), k - 1)

\* C28: after n updates of a slot's window, nr_merged is the sum of the last
\* min(n, MERGE_WIN) values given, merge_idx is n modulo MERGE_WIN and so
\* stays in [0, MERGE_WIN), and the slot is ranked exactly when the new
\* nr_merged, the value the update returns, is not zero.
C28_RollingMergeWindow ==
    \A m \in MMs :
        mm_slot[m].st = "hashed" =>
            /\ mm_slot[m].nr_merged = SumLast(passed[m], MERGE_WIN)
            /\ mm_slot[m].merge_idx = Len(passed[m]) % MERGE_WIN
            /\ mm_slot[m].merge_idx \in 0..(MERGE_WIN - 1)
            /\ passed[m] # <<>> =>
                  (m \in Range(vips_list) <=> mm_slot[m].nr_merged # 0)

\* a slot with more than MERGE_WIN updates whose oldest value counted
C28_WindowWrapped ==
    \E m \in MMs :
        /\ mm_slot[m].st = "hashed"
        /\ Len(passed[m]) > MERGE_WIN
        /\ passed[m][1] > 0
        /\ mm_slot[m].merge_idx = 1

(***************************************************************************)
(* The selection of a partial round.  Between two rounds owners register,  *)
(* are scanned and ranked, take page faults, are frozen and exit; then the *)
(* crawler prepares one partial round with lksm_max_vips set to VipLimit.  *)
(***************************************************************************)
VipLimit == 1              \* lksm_max_vips in this specification
VipRounds == 2             \* rounds of one slot before the selection

VipCur == [Cur EXCEPT !.lksm_max_vips = VipLimit]

BetweenRounds == ksm_scan.scan_mode = "NONE"

VipIdle == UNCHANGED <<env, ctl, crawl_pc, scan_pc, need_to_sleep, gkp, mig>>

VipEnter(m) == BetweenRounds /\ Live(m) /\ RankEnter(m)

VipRank(m, nr) ==
    /\ BetweenRounds
    /\ Live(m)
    /\ "FROZEN" \notin mm_slot[m].state
    /\ Len(passed[m]) < VipRounds
    /\ RankSlot(m, nr)

\* a page fault of the owner: maj_flt + min_flt moves
VipFault(m) ==
    /\ BetweenRounds
    /\ Live(m)
    /\ m \notin faulted
    /\ faulted' = faulted \cup {m}
    /\ CommitShared(Cur)
    /\ UNCHANGED <<in_freezer, passed>>
    /\ VipIdle

VipFrozen(m) ==
    /\ BetweenRounds
    /\ Live(m)
    /\ ~in_freezer[m]
    /\ CommitShared(lksm_task_frozen(Cur, m))
    /\ in_freezer' = [in_freezer EXCEPT ![m] = TRUE]
    /\ UNCHANGED <<passed, faulted>>
    /\ VipIdle

\* mmput: the last user of the mm is gone, __ksm_exit has not run yet
VipExit(m) ==
    /\ BetweenRounds
    /\ Live(m)
    /\ CommitShared([Cur EXCEPT !.mm_stage[m] = "put"])
    /\ in_freezer' = [in_freezer EXCEPT ![m] = FALSE]
    /\ UNCHANGED <<passed, faulted>>
    /\ VipIdle

\* the ranked slots that lksm_prepare_partial_scan moved to scan_list
VipsTaken(before, after) ==
    {m \in Range(before.vips_list) :
        m \notin Range(before.scan_list) /\ m \in Range(after.scan_list)}

VipSelect ==
    /\ BetweenRounds
    /\ \E r \in {lksm_prepare_partial_scan(VipCur, faulted)} :
          /\ CommitShared(r.S)
          /\ faulted' = faulted \ VipsTaken(Cur, r.S)
    /\ UNCHANGED <<in_freezer, passed>>
    /\ VipIdle

VipNext ==
    \/ \E m \in MMs : VipEnter(m)
    \/ \E m \in MMs, nr \in 0..MaxMerged : VipRank(m, nr)
    \/ \E m \in MMs : VipFault(m)
    \/ \E m \in MMs : VipFrozen(m)
    \/ \E m \in MMs : VipExit(m)
    \/ VipSelect

VipSpec == RankInit /\ [][VipNext]_vars

\* the step is the selection of a partial round
Selecting == ksm_scan.scan_mode = "NONE" /\ ksm_scan'.scan_mode = "PARTIAL"

\* the owners that the selection registered (nr_added)
NewlyAdded ==
    {m \in MMs : /\ mm_slot[m].st = "none" /\ mm_slot'[m].st = "hashed"
                 /\ "FROZEN" \notin mm_slot'[m].state}

\* the slots taken by the selection
Taken == {m \in Range(vips_list) :
             m \notin Range(scan_list) /\ m \in Range(scan_list')}

\* the ranked slots that the selection may take
Eligible(m) ==
    /\ m \in Range(vips_list)
    /\ mm_stage[m] = "live"
    /\ "LISTED" \in mm_slot[m].state
    /\ m \in faulted

\* max(0, lksm_max_vips - newly added owners - frozen owners)
BatchSize ==
    IF VipLimit - Cardinality(NewlyAdded) - ksm_scan'.nr_frozen > 0
    THEN VipLimit - Cardinality(NewlyAdded) - ksm_scan'.nr_frozen
    ELSE 0

C30_SelectionSkipsExited ==
    [][Selecting =>
         /\ \A m \in Range(vips_list) :
               mm_stage[m] # "live" /\ RankPos(vips_list, m) = 1 /\ BatchSize > 0
                  => mm_slot'[m].st = "removed"
         /\ \A m \in Range(vips_list) :
               Eligible(m) => m \in Taken \/ Cardinality(Taken) >= BatchSize]_vars

\* the selection ends at the first slot whose owner has exited: the slot is
\* removed and no slot ranked below it is taken
SelectionEndsAtExited ==
    [][Selecting =>
         \A m \in Range(vips_list) :
            mm_stage[m] # "live" =>
               \A o \in Range(vips_list) :
                  RankPos(vips_list, m) < RankPos(vips_list, o) => o \notin Taken]_vars

(***************************************************************************)
(* The preparation of a full round.                                        *)
(***************************************************************************)
\* the crawler is about to call lksm_prepare_full_scan, which will not abort
FullScanDue ==
    /\ bug = "none"
    /\ crawl_pc = "loop"
    /\ may_crawl(Cur, "full")

\* lksm_prepare_full_scan leaves every slot of mm_list on scan_list, in mode
\* FULL, one round later
FullRoundListsAll(r) ==
    /\ \A m \in Range(r.S.mm_list) : m \in Range(r.S.scan_list)
    /\ r.S.ksm_scan.scan_mode = "FULL"
    /\ r.S.ksm_crawl_round = ksm_crawl_round + 1

\* C31, as stated: after lksm_prepare_full_scan completes without abort,
\* every slot on mm_list is on scan_list, the mode is FULL, ksm_crawl_round
\* has increased by exactly one, and the value returned is positive whenever
\* scan_list is not empty.
C31_FullRoundCoversOwners ==
    FullScanDue =>
        With([r \in {lksm_prepare_full_scan(Cur)} |->
            /\ FullRoundListsAll(r)
            /\ r.S.scan_list # <<>> => r.ret > 0])

\* every slot of mm_list is listed, the mode is FULL and the round advances
FullRoundListsEverySlot ==
    FullScanDue => FullRoundListsAll(lksm_prepare_full_scan(Cur))

(***************************************************************************)
(* The end of the walk of an owner (scan_get_next_rmap_item, the branch    *)
(* for a cursor address that is not 0).                                    *)
(***************************************************************************)
\* the scan thread stands on an owner and is about to look for its next record
OnOwner ==
    /\ bug = "none"
    /\ scan_pc = "top"
    /\ ksmd_should_run(Cur)
    /\ ksm_scan.mm_slot \in MMs
    /\ mm_slot[ksm_scan.mm_slot].st # "none"

\* the state in which __scan_next_rmap_item leaves the cursor
WalkEnd(fault) ==
    scan_next_rmap_item(
        IF ksm_scan.rmap_list = -1 THEN [Cur EXCEPT !.ksm_scan.rmap_list = 0]
        ELSE Cur, ksm_scan.mm_slot, fault)

\* the walk is over, the owner lives and had a mergeable area
Exhausted(fault) ==
    /\ OnOwner
    /\ WalkEnd(fault).item = NoUnit
    /\ ~ksm_test_exit(WalkEnd(fault).S, ksm_scan.mm_slot)
    /\ WalkEnd(fault).S.ksm_scan.address # 0

\* the bookkeeping of the owner m in T, W being the state at the end of the walk
Bookkept(W, T, m) ==
    /\ \A a \in Addrs : a > W.ksm_scan.rmap_list =>
          /\ ~T.rmap[<<m, a>>].present
          /\ <<m, a>> \notin Range(T.root_unstable_tree)
          /\ \A n \in NodeIds : <<m, a>> \notin Hlist(T, n)
    /\ m \notin Range(T.scan_list)
    /\ "SCANNED" \in T.mm_slot[m].state
    /\ "NEWCOMER" \notin T.mm_slot[m].state
    /\ "FROZEN" \notin T.mm_slot[m].state
    /\ T.mm_slot[m].nr_merged_win[mm_slot[m].merge_idx + 1] = W.lksm_slot_nr_merged
    /\ T.mm_slot[m].merge_idx = (mm_slot[m].merge_idx + 1) % MERGE_WIN
    /\ \A i \in 1..MERGE_WIN : i # mm_slot[m].merge_idx + 1 =>
          T.mm_slot[m].nr_merged_win[i] = mm_slot[m].nr_merged_win[i]
    /\ m \in Range(T.vips_list) <=>
          T.mm_slot[m].nr_merged_win[1] + T.mm_slot[m].nr_merged_win[2]
              + T.mm_slot[m].nr_merged_win[3] # 0

\* C32: when the scan thread exhausts a living owner with a cursor address
\* that is not 0, the records of the owner beyond the cursor are detached and
\* freed, the owner is off the work list with SCANNED set and NEWCOMER and
\* FROZEN cleared, its window took the merges counted for the walk, and it is
\* in the rank tree if and only if the sum of its window is not 0.
C32_EndOfOwnerBookkeeping ==
    \A fault \in Faults :
        Exhausted(fault) =>
            Bookkept(WalkEnd(fault).S, scan_slot(Cur, fault).S, ksm_scan.mm_slot)

\* an owner with a record beyond the cursor and a counted merge is exhausted
C32_Witness ==
    /\ Exhausted("none")
    /\ lksm_slot_nr_merged > 0
    /\ \E a \in Addrs : /\ a > WalkEnd("none").S.ksm_scan.rmap_list
                        /\ rmap[<<ksm_scan.mm_slot, a>>].present
    /\ scan_slot(Cur, "none").S.bug = "none"

(***************************************************************************)
(* The counters of the scan cursor against the work list.                  *)
(***************************************************************************)
\* the slots on the work list that were not scanned in the round
Unscanned(frozen) ==
    {m \in Range(scan_list) :
        /\ "SCANNED" \notin mm_slot[m].state
        /\ ("FROZEN" \in mm_slot[m].state) = frozen}

\* C33, as stated: between two critical sections of ksm_mmlist_lock nr_frozen
\* is the number of FROZEN owners not yet scanned, nr_scannable the number of
\* other owners awaiting their scan, and neither counter is negative.
C33_CountsMatchWorkList ==
    bug = "none" =>
        /\ ksm_scan.nr_frozen = Cardinality(Unscanned(TRUE))
        /\ ksm_scan.nr_scannable = Cardinality(Unscanned(FALSE))
        /\ ksm_scan.nr_frozen >= 0
        /\ ksm_scan.nr_scannable >= 0

(***************************************************************************)
(* Records hang off nodes that hold a page, never off a chain.             *)
(***************************************************************************)
\* the records attached to a stable node
StableItems == {u \in Units : rmap[u].present /\ rmap[u].flag = "stable"}

\* C34: the head of no record is a chain, no record is attached to a node with
\* a negative rmap_hlist_len, and the BUG_ON(rmap_hlist_len < 0) of
\* stable_tree_append and of remove_node_from_stable_tree never fires.
C34_ChainsCarryNoOwners ==
    /\ \A u \in StableItems :
          /\ rmap[u].head \in NodeIds
          /\ ~is_stable_node_chain(Cur, rmap[u].head)
          /\ stable_node[rmap[u].head].rmap_hlist_len >= 0
    /\ bug \notin {"stable_tree_append", "remove_node_from_stable_tree"}

\* a chain is in the tree while records hang off its duplicates
C34_Witness ==
    /\ bug = "none"
    /\ \E c \in NodeIds : is_stable_node_chain(Cur, c)
    /\ Cardinality(StableItems) >= 3

(***************************************************************************)
(* The counters of the stable tree against the reverse-mapping lists.      *)
(***************************************************************************)
\* the regular and dup nodes
PageNodes == {n \in NodeIds : /\ stable_node[n].head # "free"
                              /\ ~is_stable_node_chain(Cur, n)}

\* C35: between two operations rmap_hlist_len of every regular or dup node is
\* the number of records on its list, ksm_pages_shared is the number of such
\* nodes with a record, and ksm_pages_shared + ksm_pages_sharing is the number
\* of records with STABLE_FLAG.
C35_AttachDetachAccounting ==
    bug = "none" =>
        /\ \A n \in PageNodes :
              stable_node[n].rmap_hlist_len = Cardinality(Hlist(Cur, n))
        /\ ksm_pages_shared
              = Cardinality({n \in PageNodes : Hlist(Cur, n) # {}})
        /\ ksm_pages_shared + ksm_pages_sharing = Cardinality(StableItems)

\* C35, the steps: a record that gains STABLE_FLAG raises the length of its
\* node by one, a record that leaves a node that stays lowers it by one.
C35_OneByOne ==
    [][bug' = "none" =>
         \A n \in NodeIds :
            (n \in PageNodes /\ n \in PageNodes'
                /\ stable_node'[n].kpfn = stable_node[n].kpfn) =>
               stable_node'[n].rmap_hlist_len - stable_node[n].rmap_hlist_len
                 = Cardinality(Hlist(Cur, n)' \ Hlist(Cur, n))
                     - Cardinality(Hlist(Cur, n) \ Hlist(Cur, n)')]_vars

\* two nodes carry records, one of them two
C35_Witness ==
    /\ bug = "none"
    /\ ksm_pages_shared >= 2
    /\ ksm_pages_sharing >= 1
    /\ \E n \in PageNodes : stable_node[n].rmap_hlist_len = 2

(***************************************************************************)
(* The run file written several times: merging is stopped, undone and      *)
(* started again while owners register and the two threads run.            *)
(***************************************************************************)
MaxRestart == 2            \* writes to the run file after the first start

\* a write to the run file, as RunStore, with the budget of MaxRestart
RestartStore(flags) ==
    /\ Running
    /\ scan_pc # "do_scan"
    /\ ksm_run # flags
    /\ IF ksm_run = KSM_RUN_STOP /\ flags = KSM_RUN_MERGE /\ ctl = 0
       THEN UNCHANGED ctl
       ELSE ctl < MaxRestart /\ ctl' = ctl + 1
    /\ UNCHANGED env
    /\ Commit(run_store(Cur, flags))
    /\ UNCHANGED in_freezer
    /\ Threads

RestartNext ==
    \/ \E m \in MMs : Madvise(m)
    \/ \E f \in {KSM_RUN_STOP, KSM_RUN_MERGE, KSM_RUN_UNMERGE} : RestartStore(f)
    \/ \E k \in CrawlKinds, ch \in SUBSET MMs : Crawl(k, ch)
    \/ \E f \in Faults, t \in BOOLEAN : ScanIter(FALSE, f, t)
    \/ ScanWake

RestartSpec == Init /\ [][RestartNext]_vars

\* the scan thread is about to enter ksm_do_scan
ScanEntry ==
    /\ scan_pc = "top"
    /\ ksmd_should_run(Cur)

\* the cursor names the head of the work list or a registered slot, and the
\* record it stands on is allocated
CursorValid ==
    /\ \/ ksm_scan.mm_slot = ScanHead
       \/ /\ ksm_scan.mm_slot \in MMs
          /\ mm_slot[ksm_scan.mm_slot].st # "none"
          /\ mm_stage[ksm_scan.mm_slot] # "unborn"
    /\ (ksm_scan.mm_slot \in MMs /\ ksm_scan.rmap_list > 0) =>
          rmap[<<ksm_scan.mm_slot, ksm_scan.rmap_list>>].present

\* C36, as stated: whenever scan_get_next_rmap_item is entered the cursor is
\* &ksm_scan_head or a registered slot with an mm, its rmap_list is not in a
\* freed record, and BUG_ON(!mm) is not reached; a scan that follows an
\* unmerge and a new start included.
C36_CursorValidAcrossUnmerge ==
    /\ (bug = "none" /\ ScanEntry) => CursorValid
    /\ bug # "scan_get_next_rmap_item"

(***************************************************************************)
(* The exit of an mm with both exit hooks of the file: __ksm_exit and      *)
(* lksm_remove_candidate ("called by ksm_exit").  ksm_exit itself is not   *)
(* in the file, so the hooks it calls are an input of the action.          *)
(***************************************************************************)
ExitHooks == {"exit", "candidate", "both"}

\* the hooks of ksm_exit for the mm m, owner telling whether mm->owner is set
exit_hooks(S, m, hooks, owner) ==
    LET S1 == IF hooks \in {"candidate", "both"}
              THEN lksm_remove_candidate(S, m, owner) ELSE S
    IN IF hooks \in {"exit", "both"} THEN ksm_exit(S1, m) ELSE S1

KsmExitHooks(m, hooks, owner) ==
    /\ Running
    /\ mm_stage[m] = "put"
    /\ Commit(exit_hooks([Cur EXCEPT !.mm_stage[m] = "exiting"], m, hooks, owner))
    /\ UNCHANGED <<in_freezer, env>>
    /\ Threads
    /\ NoCtl

ExitNext ==
    \/ \E m \in MMs : TaskFrozen(m)
    \/ \E m \in MMs : Madvise(m)
    \/ \E m \in MMs : MmPut(m)
    \/ \E m \in MMs, h \in ExitHooks, o \in BOOLEAN : KsmExitHooks(m, h, o)
    \/ \E m \in MMs : ExitMmap(m)
    \/ \E f \in {KSM_RUN_STOP, KSM_RUN_MERGE, KSM_RUN_UNMERGE} : RunStore(f)
    \/ \E k \in CrawlKinds, ch \in SUBSET MMs : Crawl(k, ch)
    \/ \E f \in Faults, t \in BOOLEAN : ScanIter(FALSE, f, t)
    \/ ScanWake

ExitSpec == Init /\ [][ExitNext]_vars

\* the slot of m can be found through the hash, the work list or the rank tree
Reachable(m) ==
    \/ mm_slot[m].st = "hashed"
    \/ m \in Range(scan_list)
    \/ m \in Range(vips_list)

\* C37, as stated: a slot on remove_mm_list is not in the hash, on the work
\* list or in the rank tree, whichever of lksm_remove_mm_slot and
\* lksm_remove_candidate put it there, so that lksm_flush_removed_mm_list
\* frees no slot that the threads or a later exit can reach.
C37_PendingRemovalUnreachable ==
    /\ \A m \in Range(remove_mm_list) : ~Reachable(m)
    /\ \A m \in MMs :
          (mm_slot[m].st # "none"
              /\ lksm_flush_removed_mm_list(Cur).mm_slot[m].st = "none") =>
             ~Reachable(m)

\* the slots that lksm_remove_mm_slot puts on remove_mm_list are unreachable
RetiredUnreachable ==
    \A m \in Range(remove_mm_list) : ~Reachable(m)

(***************************************************************************)
(* The statistics of the wrap-up of a round (lksm_scan_thread).            *)
(***************************************************************************)
\* the scan thread is about to take one of the two wrap-up branches: the
\* pass it runs ends in scan_decide with a call of wrapup
WrapupDue(fault) ==
    /\ bug = "none"
    /\ scan_pc = "top"
    /\ With([d \in {IF ksmd_should_run(Cur) THEN ksm_do_scan(Cur, FALSE, fault)
                    ELSE [S |-> Cur, need_to_sleep |-> FALSE]} |->
          /\ d.S.bug = "none"
          /\ \/ d.need_to_sleep /\ ~ksmd_should_run(d.S)
             \/ /\ ~d.need_to_sleep
                /\ ~ksmd_should_run(d.S)
                /\ d.S.ksm_scan.scan_round > 0])

\* the divisor of lksm_proc_scan_time in that pass
Divisor(fault) ==
    (IF ksmd_should_run(Cur) THEN ksm_do_scan(Cur, FALSE, fault).S
     ELSE Cur).lksm_nr_scanned_slot

\* C38, as stated: lksm_nr_scanned_slot is positive wherever
\* lksm_proc_scan_time = elapsed / lksm_nr_scanned_slot is computed.
C38_DivisorPositive ==
    /\ \A fault \in Faults : WrapupDue(fault) => Divisor(fault) > 0
    /\ bug # "lksm_scan_thread"

(***************************************************************************)
(* The class of a registered owner.                                        *)
(***************************************************************************)
\* C39, as stated: a registered slot has exactly one of KSM_MM_FROZEN and
\* KSM_MM_LISTED at all times.
C39_OwnerClassDefined ==
    \A m \in MMs :
        mm_slot[m].st = "hashed" =>
            ("FROZEN" \in mm_slot[m].state) # ("LISTED" \in mm_slot[m].state)

\* no registered slot has both bits
NotBothClasses ==
    \A m \in MMs :
        mm_slot[m].st = "hashed" =>
            ~("FROZEN" \in mm_slot[m].state /\ "LISTED" \in mm_slot[m].state)

(***************************************************************************)
(* One-shot requests: the file one_shot_scanning, the run mode             *)
(* KSM_RUN_ONESHOT and lksm_do_crawl_once.                                 *)
(***************************************************************************)
\* one_shot_scanning_store: [S, ret], ret is "count" for an accepted write
one_shot_scanning_store(S, val) ==
    IF val \notin {LKSM_SCAN_PARTIAL, LKSM_SCAN_FULL}
    THEN [S |-> S, ret |-> "EINVAL"]
    ELSE IF S.ksm_one_shot_scanning = LKSM_SCAN_NONE
    THEN [S |-> [S EXCEPT !.ksm_one_shot_scanning = val], ret |-> "count"]
    ELSE [S |-> S, ret |-> "EINVAL"]

\* lksm_do_crawl_once after the wait for a request
lksm_do_crawl_once(S, changed) ==
    With([r \in {IF S.ksm_one_shot_scanning = LKSM_SCAN_PARTIAL
                 THEN lksm_prepare_partial_scan(S, changed)
                 ELSE lksm_prepare_full_scan(S)} |->
       IF r.ret > 0 THEN lksm_wake_up_scan_thread(r.S)
       ELSE [r.S EXCEPT !.ksm_one_shot_scanning = LKSM_SCAN_NONE]])

\* a write to one_shot_scanning
OneShotStore(val) ==
    /\ Running
    /\ Commit(one_shot_scanning_store(Cur, val).S)
    /\ UNCHANGED <<in_freezer, env, ctl>>
    /\ Threads

\* a write of 0, 1 or 8 to the run file
OneShotRunStore(flags) ==
    /\ Running
    /\ scan_pc # "do_scan"
    /\ ksm_run # flags
    /\ IF ksm_run = KSM_RUN_STOP /\ ctl = 0
       THEN UNCHANGED ctl
       ELSE ctl < MaxCtl /\ ctl' = ctl + 1
    /\ UNCHANGED env
    /\ Commit(run_store(Cur, flags))
    /\ UNCHANGED in_freezer
    /\ Threads

\* the crawler serves a request in the one-shot mode
CrawlOnce(changed) ==
    /\ Running
    /\ crawl_pc = "loop"
    /\ run_oneshot(Cur)
    /\ ksm_crawl_round >= initial_round
    /\ ksm_crawl_round < MaxRound
    /\ ksm_state = 0
    /\ ksm_one_shot_scanning # LKSM_SCAN_NONE
    /\ ksm_one_shot_scanning = LKSM_SCAN_FULL => changed = {}
    /\ Commit(lksm_do_crawl_once(Cur, changed))
    /\ UNCHANGED <<in_freezer, env, ctl, crawl_pc, scan_pc, need_to_sleep>>

CrawlerPass ==
    \/ \E k \in CrawlKinds, ch \in SUBSET MMs : Crawl(k, ch)
    \/ \E ch \in SUBSET MMs : CrawlOnce(ch)

ScannerPass ==
    \/ \E t \in BOOLEAN : ScanIter(FALSE, "none", t)
    \/ ScanWake

OneShotNext ==
    \/ \E m \in MMs : Madvise(m)
    \/ \E m \in MMs : TaskFrozen(m)
    \/ \E v \in {LKSM_SCAN_NONE, LKSM_SCAN_PARTIAL, LKSM_SCAN_FULL} :
          OneShotStore(v)
    \/ \E f \in {KSM_RUN_STOP, KSM_RUN_MERGE, KSM_RUN_ONESHOT} :
          OneShotRunStore(f)
    \/ CrawlerPass
    \/ ScannerPass

\* both threads are scheduled again and again
OneShotSpec ==
    /\ SchedInit
    /\ [][OneShotNext]_vars
    /\ WF_vars(CrawlerPass)
    /\ WF_vars(ScannerPass)

\* a write to one_shot_scanning is accepted only on LKSM_SCAN_NONE and a
\* rejected write changes nothing
SingleFlight ==
    [][/\ ksm_one_shot_scanning' # ksm_one_shot_scanning =>
             \/ ksm_one_shot_scanning = LKSM_SCAN_NONE
             \/ ksm_one_shot_scanning' = LKSM_SCAN_NONE
       /\ \A v \in {LKSM_SCAN_PARTIAL, LKSM_SCAN_FULL} :
             With([r \in {one_shot_scanning_store(Cur, v)} |->
                IF ksm_one_shot_scanning = LKSM_SCAN_NONE
                THEN r.ret = "count" /\ r.S.ksm_one_shot_scanning = v
                ELSE r.ret = "EINVAL" /\ r.S = Cur])]_vars

\* C40, as stated: a write to one_shot_scanning is accepted only while
\* ksm_one_shot_scanning is LKSM_SCAN_NONE and changes nothing otherwise, and
\* a request accepted while the run mode has KSM_RUN_MERGE set is reset to
\* LKSM_SCAN_NONE in the end, the two threads being scheduled fairly.
C40_OneShotReleased ==
    /\ SingleFlight
    /\ (ksm_one_shot_scanning # LKSM_SCAN_NONE /\ run_merge(Cur))
          ~> (ksm_one_shot_scanning = LKSM_SCAN_NONE)

\* the request is reset or the merging is switched off
ReleasedWhileMerging ==
    (ksm_one_shot_scanning # LKSM_SCAN_NONE /\ run_merge(Cur))
        ~> (ksm_one_shot_scanning = LKSM_SCAN_NONE \/ ~run_merge(Cur))

\* the request is reset or the one-shot mode is left
ReleasedInOneShotMode ==
    (ksm_one_shot_scanning # LKSM_SCAN_NONE /\ run_oneshot(Cur)
         /\ ksm_crawl_round < MaxRound)
        ~> (ksm_one_shot_scanning = LKSM_SCAN_NONE \/ ~run_oneshot(Cur)
               \/ bug # "none")

====
